---------------------------- MODULE Spec2Model ----------------------------
(***************************************************************************)
(* A model of the labeler: the cluster store, the label store, the event   *)
(* store, the navigation engine (TitleMatch) and the command loop (run).   *)
(*                                                                         *)
(* Strings the program inspects (patterns, literals, event content) are    *)
(* sequences of one-character strings; opaque identifiers (message ids)    *)
(* are TLA+ strings.  Option<T> is a record [tag, val].                    *)
(***************************************************************************)
EXTENDS Integers, Sequences, FiniteSets, TLC

VARIABLES
    clusters,      \* Clusters.clusters: the id list built at load
    clusters_map,  \* Clusters.clusters_map: id -> Members
    events,        \* Events.events: message id -> content
    labels,        \* Labels: the label indices
    rounds,        \* TitleMatch.rounds: the stack of FilteredClusters
    prompt,        \* run: the saved (title, ticks, limit) of each layer
    title,         \* run: the display title
    ticks,         \* run: the cursor, Option<usize>
    limit,         \* run: the visible count
    reverse,       \* run: clicfg.reverse
    input,         \* the argument of a function applied on its own (files, a line)
    output         \* its result, Option

vars == <<clusters, clusters_map, events, labels, rounds, prompt, title, ticks, limit, reverse,
          input, output>>

(***************************************************************************)
(* Bounds of the model.                                                    *)
(***************************************************************************)
MaxClusters == 2
MaxOutliers == 1
MaxRounds == 2
MaxEventFilters == 1
MaxRecordedFilters == 3
MaxLoadClusters == 2
MaxLoadOutliers == 2
MaxPieces == 4
HexBlockLen == 18

(***************************************************************************)
(* Program constants.                                                      *)
(***************************************************************************)
CLUSTER_ID_FOR_OUTLIERS == 1000000

OPTION_TOKEN_MIN_LENGTH == 3
OPTION_HEXCODE_MIN_LENGTH == 20

\* Scores are f32 values counted in units of f32::EPSILON (2^-23); ScoreOne
\* is 1.0, ScoreOne + 1 the next f32 after 1.0, and 0 is 0.0. Each value used
\* and each difference of two of them is exact in f32.
ScoreOne == 8388608
F32_EPSILON == 1

(***************************************************************************)
(* Option and Result values.                                               *)
(***************************************************************************)
None == [tag |-> "None", val |-> 0]
Some(v) == [tag |-> "Some", val |-> v]
IsSome(o) == o.tag = "Some"

(***************************************************************************)
(* Sequence helpers.                                                       *)
(***************************************************************************)
Range(s) == {s[i] : i \in 1..Len(s)}
Contains(s, x) == \E i \in 1..Len(s) : s[i] = x
Last(s) == s[Len(s)]
Front(s) == SubSeq(s, 1, Len(s) - 1)

\* sort_unstable on integers followed by dedup, applied to the members of a set.
RECURSIVE SortedSeqOf(_)
SortedSeqOf(S) ==
    IF S = {} THEN <<>>
    ELSE LET m == CHOOSE x \in S : \A y \in S : x <= y
         IN <<m>> \o SortedSeqOf(S \ {m})

\* sort_unstable on a Vec of integers (duplicates are kept).
SortInts(s) == SortSeq(s, LAMBDA a, b : a < b)

\* s is a subsequence of t: s can be obtained from t by deleting elements.
RECURSIVE IsSubsequence(_, _)
IsSubsequence(s, t) ==
    IF s = <<>> THEN TRUE
    ELSE IF t = <<>> THEN FALSE
    ELSE IF Head(s) = Head(t) THEN IsSubsequence(Tail(s), Tail(t))
    ELSE IsSubsequence(s, Tail(t))


\* Vec::dedup: consecutive equal elements are collapsed.
RECURSIVE Dedup(_)
Dedup(s) ==
    IF Len(s) <= 1 THEN s
    ELSE IF s[1] = s[2] THEN Dedup(Tail(s))
         ELSE <<s[1]>> \o Dedup(Tail(s))

\* The permutations of a finite set, as sequences (the iteration orders of a HashSet).
Perms(S) ==
    {p \in [1..Cardinality(S) -> S] : \A i, j \in 1..Cardinality(S) : i # j => p[i] # p[j]}

(***************************************************************************)
(* Strings: literals and their parsers.                                    *)
(***************************************************************************)
Digits == <<"0", "1", "2", "3", "4", "5", "6", "7", "8", "9">>
IsDigit(c) == Contains(Digits, c)
DigitVal(c) == (CHOOSE i \in 1..Len(Digits) : Digits[i] = c) - 1

RECURSIVE DecimalValue(_)
DecimalValue(s) ==
    IF s = <<>> THEN 0 ELSE 10 * DecimalValue(Front(s)) + DigitVal(Last(s))

AllDigits(s) == s # <<>> /\ \A i \in 1..Len(s) : IsDigit(s[i])

\* str::parse::<usize>: an optional '+' and at least one digit.
ParseUsize(s) ==
    IF AllDigits(s) THEN Some(DecimalValue(s))
    ELSE IF s # <<>> /\ s[1] = "+" /\ AllDigits(Tail(s)) THEN Some(DecimalValue(Tail(s)))
    ELSE None

\* str::parse::<f32> on strings over digits, '+', '-' and letters that form no
\* float keyword: an optional sign and at least one digit; the value is in
\* units of f32::EPSILON.
ParseF32(s) ==
    IF AllDigits(s) THEN Some(DecimalValue(s) * ScoreOne)
    ELSE IF s # <<>> /\ s[1] = "+" /\ AllDigits(Tail(s)) THEN Some(DecimalValue(Tail(s)) * ScoreOne)
    ELSE IF s # <<>> /\ s[1] = "-" /\ AllDigits(Tail(s)) THEN Some(0 - DecimalValue(Tail(s)) * ScoreOne)
    ELSE None

\* Option::unwrap_or_default for numbers.
UnwrapOrZero(o) == IF IsSome(o) THEN o.val ELSE 0

STR_benign == <<"b", "e", "n", "i", "g", "n">>
STR_suspicious == <<"s", "u", "s", "p", "i", "c", "i", "o", "u", "s">>
STR_unknown == <<"u", "n", "k", "n", "o", "w", "n">>
STR_mixed == <<"m", "i", "x", "e", "d">>
STR_All == <<"A", "l", "l">>
STR_Clusters == <<"C", "l", "u", "s", "t", "e", "r", "s">>

\* impl FromStr for Qualifier
Qualifier_from_str(value) ==
    IF value = STR_benign THEN Some("Benign")
    ELSE IF value = STR_suspicious THEN Some("Suspicious")
    ELSE IF value = STR_unknown THEN Some("Unknown")
    ELSE IF value = STR_mixed THEN Some("Mixed")
    ELSE None

\* impl Default for Qualifier
Qualifier_default == "Unknown"

Qualifier_unwrap_or_default(o) == IF IsSome(o) THEN o.val ELSE Qualifier_default

\* impl Display for FilterOp
FilterOp_display(op) ==
    CASE op = "L" -> <<"<">>
      [] op = "G" -> <<">">>
      [] op = "LE" -> <<"<", "=">>
      [] op = "GE" -> <<">", "=">>
      [] op = "EQ" -> <<"=">>
      [] op = "NE" -> <<"<", ">">>

FilterOps == {"L", "LE", "G", "GE", "EQ", "NE"}

\* derive(Debug) for FilterType, one chunk per variant name
FilterType_debug(ft) == <<ft>>

(***************************************************************************)
(* Regular expressions over the alphabet {a, b, !, (}: '(' opens a group   *)
(* that nothing closes, any other pattern is a literal.                    *)
(***************************************************************************)
\* Regex::new(pattern): Err on invalid syntax.
Regex_new(pattern) ==
    IF Contains(pattern, "(") THEN [tag |-> "Err", val |-> <<>>]
    ELSE [tag |-> "Ok", val |-> pattern]

\* Regex::is_match of a literal: the literal occurs in the text.
Regex_is_match(re, text) ==
    \E i \in 0..(Len(text) - Len(re)) : SubSeq(text, i + 1, i + Len(re)) = re

(***************************************************************************)
(* The input files.                                                        *)
(***************************************************************************)
\* The ids an ordinary cluster of the cluster file may carry.
ClusterIdUniverse == {1, 1000001}

\* ClusterMember of the cluster file, by id.
ClusterMember(id) ==
    CASE id = 1 ->
           [cluster_id |-> 1, cluster_size |-> 0, signature |-> None,
            score |-> None, events |-> <<"e1", "e2">>]
      [] OTHER ->
           [cluster_id |-> id, cluster_size |-> 3, signature |-> Some("sig3"),
            score |-> Some(ScoreOne + 1), events |-> <<"e4", "e5", "e9">>]

\* The cluster files: every listing, in any order, of at most MaxClusters
\* ordinary clusters, with the first k outlier records.
AllOutliers == << <<"x", "o1">>, <<"y">> >>

MemberLists ==
    UNION {{p \in [1..n -> ClusterIdUniverse] : \A i, j \in 1..n : i # j => p[i] # p[j]}
           : n \in 0..MaxClusters}

SavedClustersFiles ==
    {[clusters |-> [i \in 1..Len(ids) |-> ClusterMember(ids[i])],
      outliers |-> SubSeq(AllOutliers, 1, k)]
       : ids \in MemberLists, k \in 0..(IF MaxOutliers < Len(AllOutliers) THEN MaxOutliers ELSE Len(AllOutliers))}

\* The label file (DebugLabels.events): (cluster id, [(message id, [(tidb, rule)])]).
\* Cluster 7 is labeled and is in no cluster file.
LabelsFile ==
    << [cluster_id |-> 1,
        events |-> << [msg |-> "e1", labels |-> << <<1, 1>>, <<1, 2>> >>] >>],
       [cluster_id |-> 1000001,
        events |-> << [msg |-> "e4", labels |-> << <<2, 1>> >>],
                      [msg |-> "e5", labels |-> << <<2, 1>>, <<1, 1>> >>] >>],
       [cluster_id |-> 7,
        events |-> << [msg |-> "e7", labels |-> << <<1, 1>> >>] >>],
       [cluster_id |-> CLUSTER_ID_FOR_OUTLIERS,
        events |-> << [msg |-> "o1", labels |-> << <<1, 2>> >>] >>] >>

\* The event file: one record per line, with its column count, key field, text
\* and the tokens of its feature fields (no run of the texts has three characters).
EventsFile ==
    << [ncols |-> 2, key |-> "e1", content |-> <<"a">>, tokens |-> <<>>],
       [ncols |-> 2, key |-> "e2", content |-> <<"a", "b">>, tokens |-> <<>>],
       [ncols |-> 2, key |-> "e3", content |-> <<"b">>, tokens |-> <<>>],
       [ncols |-> 2, key |-> "e4", content |-> <<"b", "!", "a">>, tokens |-> <<>>],
       [ncols |-> 3, key |-> "e5", content |-> <<"a">>, tokens |-> <<>>],
       [ncols |-> 2, key |-> "e5", content |-> <<"b">>, tokens |-> <<>>],
       [ncols |-> 2, key |-> "e8", content |-> <<"a">>, tokens |-> <<>>],
       [ncols |-> 2, key |-> "o1", content |-> <<"a", "a">>, tokens |-> <<>>] >>

\* Config::column_len
ColumnLen == 2

(***************************************************************************)
(* Label store (labels.rs).                                                *)
(***************************************************************************)
\* The (cluster id, pattern id) pairs of the label file, in file order.
RECURSIVE EventLabelPairs(_, _)
EventLabelPairs(cid, evs) ==
    IF evs = <<>> THEN <<>>
    ELSE [k \in 1..Len(Head(evs).labels) |-> <<cid, Head(evs).labels[k]>>]
         \o EventLabelPairs(cid, Tail(evs))

RECURSIVE LabelPairs(_)
LabelPairs(file) ==
    IF file = <<>> THEN <<>>
    ELSE EventLabelPairs(Head(file).cluster_id, Head(file).events) \o LabelPairs(Tail(file))

\* The 64-bit sort key of a PatternId, (tidb << 32) | rule, as its high and
\* low 32-bit words.
PackedKey(p) == <<p[1], p[2]>>

\* The order of two 64-bit keys given as (high word, low word).
U64Less(x, y) == x[1] < y[1] \/ (x[1] = y[1] /\ x[2] < y[2])

\* Labels::new
Labels_new(file) ==
    LET pairs == LabelPairs(file)
        cids == {pairs[i][1] : i \in 1..Len(pairs)}
        pats == {pairs[i][2] : i \in 1..Len(pairs)}
        PatsOf(c) == [i \in 1..Len(SelectSeq(pairs, LAMBDA x : x[1] = c))
                        |-> SelectSeq(pairs, LAMBDA x : x[1] = c)[i][2]]
        CidsOf(p) == [i \in 1..Len(SelectSeq(pairs, LAMBDA x : x[2] = p))
                        |-> SelectSeq(pairs, LAMBDA x : x[2] = p)[i][1]]
        FirstEntry(c) == CHOOSE i \in 1..Len(file) :
                            /\ file[i].cluster_id = c
                            /\ \A j \in 1..(i - 1) : file[j].cluster_id # c
    IN [clusters_labels_map |->
            [c \in cids |-> Dedup(SortSeq(PatsOf(c), LAMBDA a, b : U64Less(PackedKey(a), PackedKey(b))))],
        clusters_events_map |->
            [c \in {file[i].cluster_id : i \in 1..Len(file)} |-> file[FirstEntry(c)].events],
        labels_clusters_map |-> [p \in pats |-> SortInts(CidsOf(p))],
        events |-> file]

\* is_labeled taking every cluster listed in the label file for a labeled one.
is_labeled_Listed(ls, cluster_id) == cluster_id \in DOMAIN ls.clusters_events_map

\* Labels::is_labeled
is_labeled(ls, cluster_id) == cluster_id \in DOMAIN ls.clusters_labels_map

\* find_clusters without the final dedup: the cluster lists of the matching
\* patterns, appended and sorted.
RECURSIVE ExtendAll(_, _)
ExtendAll(m, P) ==
    IF P = {} THEN <<>>
    ELSE LET p == CHOOSE x \in P : TRUE IN m[p] \o ExtendAll(m, P \ {p})

find_clusters_NoDedup(ls, tidb_id, rule_id) ==
    SortInts(ExtendAll(ls.labels_clusters_map,
                       {p \in DOMAIN ls.labels_clusters_map :
                           /\ (p[1] = tidb_id \/ tidb_id = 0)
                           /\ (p[2] = rule_id \/ rule_id = 0)}))

\* Labels::find_clusters
find_clusters(ls, tidb_id, rule_id) ==
    LET hit == {p \in DOMAIN ls.labels_clusters_map :
                   /\ (p[1] = tidb_id \/ tidb_id = 0)
                   /\ (p[2] = rule_id \/ rule_id = 0)}
    IN SortedSeqOf(UNION {Range(ls.labels_clusters_map[p]) : p \in hit})

(***************************************************************************)
(* Event store (events.rs).                                                *)
(***************************************************************************)
\* Events::new without the test of the column count.
Events_new_AnyWidth(file, column_len, event_ids) ==
    LET ok(i) == file[i].key \in event_ids
        keys == {file[i].key : i \in {j \in 1..Len(file) : ok(j)}}
        LastLine(k) == CHOOSE i \in 1..Len(file) :
                          /\ ok(i) /\ file[i].key = k
                          /\ \A j \in (i + 1)..Len(file) : ~(ok(j) /\ file[j].key = k)
    IN [k \in keys |-> [content |-> file[LastLine(k)].content,
                        tokens |-> file[LastLine(k)].tokens]]

\* Events::new on the lines already split: the lines of the declared width
\* whose key is wanted; a later line replaces an earlier one with the same key.
Events_new(file, column_len, event_ids) ==
    LET ok(i) == file[i].ncols = column_len /\ file[i].key \in event_ids
        keys == {file[i].key : i \in {j \in 1..Len(file) : ok(j)}}
        LastLine(k) == CHOOSE i \in 1..Len(file) :
                          /\ ok(i) /\ file[i].key = k
                          /\ \A j \in (i + 1)..Len(file) : ~(ok(j) /\ file[j].key = k)
    IN [k \in keys |-> [content |-> file[LastLine(k)].content,
                        tokens |-> file[LastLine(k)].tokens]]

\* Events::regex_match: the ids of event_ids, in order, whose stored content matches.
Events_regex_match(evs, re, event_ids) ==
    SelectSeq(event_ids, LAMBDA m : m \in DOMAIN evs /\ Regex_is_match(re, evs[m].content))

(***************************************************************************)
(* Cluster store (cluster.rs).                                             *)
(***************************************************************************)
\* SavedClusters::cluster_ids
cluster_ids(saved) == SortInts([i \in 1..Len(saved.clusters) |-> saved.clusters[i].cluster_id])

\* The Members built for one ClusterMember.
NewMembers(m, ls) ==
    LET qualifier == IF is_labeled(ls, m.cluster_id) THEN "Suspicious" ELSE Qualifier_default
    IN [id |-> m.cluster_id, size |-> m.cluster_size, score |-> UnwrapOrZero(m.score),
        qualifier |-> qualifier, new_qualifier |-> qualifier, signature |-> m.signature,
        event_ids |-> m.events, filtered_events |-> <<>>, filter |-> <<>>]

\* OutlierMembers sized by the outlier records that carry a message id.
OutlierMembers_SizeOfParsed(outliers) ==
    LET have == SelectSeq(outliers, LAMBDA raw : Len(raw) >= 2)
    IN [id |-> CLUSTER_ID_FOR_OUTLIERS, size |-> Len(have), score |-> 0,
        qualifier |-> Qualifier_default, new_qualifier |-> Qualifier_default,
        signature |-> None, event_ids |-> [i \in 1..Len(have) |-> have[i][2]],
        filtered_events |-> <<>>, filter |-> <<>>]

\* The Members of the synthetic outliers cluster: the message id is the
\* second field of each outlier record that has one.
OutlierMembers(outliers) ==
    LET have == SelectSeq(outliers, LAMBDA raw : Len(raw) >= 2)
    IN [id |-> CLUSTER_ID_FOR_OUTLIERS, size |-> Len(outliers), score |-> 0,
        qualifier |-> Qualifier_default, new_qualifier |-> Qualifier_default,
        signature |-> None, event_ids |-> [i \in 1..Len(have) |-> have[i][2]],
        filtered_events |-> <<>>, filter |-> <<>>]

\* Clusters::new
Clusters_new(saved, ls) ==
    LET ids == cluster_ids(saved)
        Of(c) == CHOOSE i \in 1..Len(saved.clusters) :
                    /\ saved.clusters[i].cluster_id = c
                    /\ \A j \in (i + 1)..Len(saved.clusters) : saved.clusters[j].cluster_id # c
        ordinary == [c \in Range(ids) |-> NewMembers(saved.clusters[Of(c)], ls)]
    IN IF saved.outliers # <<>>
       THEN [clusters |-> Append(ids, CLUSTER_ID_FOR_OUTLIERS),
             clusters_map |-> [c \in Range(ids) \cup {CLUSTER_ID_FOR_OUTLIERS} |->
                                  IF c = CLUSTER_ID_FOR_OUTLIERS
                                  THEN OutlierMembers(saved.outliers)
                                  ELSE ordinary[c]]]
       ELSE [clusters |-> ids, clusters_map |-> ordinary]

\* Clusters::event_ids
Clusters_event_ids(cm) == UNION {Range(cm[c].event_ids) : c \in DOMAIN cm}

\* The Count comparison with >= taken for >.
CountMatches_GEasG(size, op, count) ==
    CASE op = "L" -> size < count
      [] op = "G" -> size > count
      [] op = "LE" -> size <= count
      [] op = "GE" -> size > count
      [] op = "EQ" -> size = count
      [] op = "NE" -> size # count

\* The comparison a Count filter makes.
CountMatches(size, op, count) ==
    CASE op = "L" -> size < count
      [] op = "G" -> size > count
      [] op = "LE" -> size <= count
      [] op = "GE" -> size >= count
      [] op = "EQ" -> size = count
      [] op = "NE" -> size # count

Abs(x) == IF x < 0 THEN 0 - x ELSE x

\* The comparison a Score filter makes.
ScoreMatches(cscore, op, score) ==
    CASE op = "L" -> cscore < score
      [] op = "G" -> cscore > score
      [] op = "LE" -> cscore <= score
      [] op = "GE" -> cscore >= score
      [] op = "EQ" -> Abs(cscore - score) < F32_EPSILON
      [] op = "NE" -> Abs(cscore - score) > F32_EPSILON

\* The closure of filter_clusters matching no cluster when the literal does
\* not parse.
ClusterMatches_RejectsUnparsable(c, ft, op, value) ==
    CASE ft = "Count" ->
           IsSome(ParseUsize(value)) /\ CountMatches(c.size, op, ParseUsize(value).val)
      [] ft = "Score" ->
           IsSome(ParseF32(value)) /\ ScoreMatches(c.score, op, ParseF32(value).val)
      [] ft = "Qualifier" ->
           IsSome(Qualifier_from_str(value)) /\ c.new_qualifier = Qualifier_from_str(value).val
      [] OTHER -> FALSE

\* The closure of filter_clusters comparing the qualifier seeded at load.
ClusterMatches_SeededQualifier(c, ft, op, value) ==
    CASE ft = "Count" -> CountMatches(c.size, op, UnwrapOrZero(ParseUsize(value)))
      [] ft = "Score" -> ScoreMatches(c.score, op, UnwrapOrZero(ParseF32(value)))
      [] ft = "Qualifier" ->
           c.qualifier = Qualifier_unwrap_or_default(Qualifier_from_str(value))
      [] OTHER -> FALSE

\* The closure of Clusters::filter_clusters: does cluster c match?
ClusterMatches(c, ft, op, value) ==
    CASE ft = "Count" -> CountMatches(c.size, op, UnwrapOrZero(ParseUsize(value)))
      [] ft = "Score" -> ScoreMatches(c.score, op, UnwrapOrZero(ParseF32(value)))
      [] ft = "Qualifier" ->
           c.new_qualifier = Qualifier_unwrap_or_default(Qualifier_from_str(value))
      [] OTHER -> FALSE

\* filter_clusters collecting the matches back to front.
filter_clusters_Reversed(cm, ids, ft, op, value) ==
    LET kept == SelectSeq(ids, LAMBDA cid :
                    cid \in DOMAIN cm /\ ClusterMatches(cm[cid], ft, op, value))
    IN [i \in 1..Len(kept) |-> kept[Len(kept) + 1 - i]]

\* Clusters::filter_clusters
filter_clusters(cm, ids, ft, op, value) ==
    SelectSeq(ids, LAMBDA cid : cid \in DOMAIN cm /\ ClusterMatches(cm[cid], ft, op, value))

\* regex_match that takes an invalid pattern for one that matches nothing.
Clusters_regex_match_NoError(cm, ids, pattern, evs) ==
    [tag |-> "Ok",
     val |-> SelectSeq(ids, LAMBDA cid :
                /\ cid \in DOMAIN cm
                /\ Regex_new(pattern).tag = "Ok"
                /\ Events_regex_match(evs, pattern, cm[cid].event_ids) # <<>>)]

\* regex_match looking only at the events the innermost event filter kept.
Clusters_regex_match_OnFiltered(cm, ids, pattern, evs) ==
    LET re == Regex_new(pattern)
        Searched(c) == IF c.filtered_events # <<>> THEN c.filtered_events[Len(c.filtered_events)]
                       ELSE c.event_ids
    IN IF re.tag = "Err" THEN [tag |-> "Err", val |-> <<>>]
       ELSE [tag |-> "Ok",
             val |-> SelectSeq(ids, LAMBDA cid :
                        /\ cid \in DOMAIN cm
                        /\ Events_regex_match(evs, re.val, Searched(cm[cid])) # <<>>)]

\* Clusters::regex_match: Err on an invalid pattern, else the clusters of ids
\* with at least one matching member event.
Clusters_regex_match(cm, ids, pattern, evs) ==
    LET re == Regex_new(pattern)
    IN IF re.tag = "Err" THEN [tag |-> "Err", val |-> <<>>]
       ELSE [tag |-> "Ok",
             val |-> SelectSeq(ids, LAMBDA cid :
                        /\ cid \in DOMAIN cm
                        /\ Events_regex_match(evs, re.val, cm[cid].event_ids) # <<>>)]

\* The event ids taken from the outermost recorded subset instead of the innermost.
CurrentEventIds_Outermost(c) ==
    IF c.filtered_events # <<>> THEN c.filtered_events[1] ELSE c.event_ids

\* The event ids taken from the full member list whatever has been recorded.
CurrentEventIds_FullList(c) == c.event_ids

\* The event ids an event filter on cluster c works on.
CurrentEventIds(c) ==
    IF c.filtered_events # <<>> THEN Last(c.filtered_events) ELSE c.event_ids

\* regex_match_in_this_cluster taking an invalid pattern for one no event matches.
regex_match_in_this_cluster_EmptyOnError(cm, cluster_id, pattern, evs) ==
    LET negate == pattern # <<>> /\ pattern[1] = "!"
        inner == IF negate THEN Tail(pattern) ELSE pattern
        re == Regex_new(inner)
    IN IF negate /\ Len(pattern) = 1 THEN {[tag |-> "None", val |-> <<>>]}
       ELSE IF re.tag = "Err" THEN {[tag |-> "Some", val |-> <<>>]}
       ELSE IF cluster_id \notin DOMAIN cm THEN {[tag |-> "None", val |-> <<>>]}
       ELSE LET ids == CurrentEventIds(cm[cluster_id])
                matched == Events_regex_match(evs, re.val, ids)
            IN IF negate
               THEN {[tag |-> "Some", val |-> p] : p \in Perms(Range(ids) \ Range(matched))}
               ELSE {[tag |-> "Some", val |-> matched]}

\* Clusters::regex_match_in_this_cluster: the set of results it may return,
\* each [tag: "Err" | "None" | "Some", val]; a negated match is collected from
\* a HashSet difference, whose iteration order is not determined.
regex_match_in_this_cluster(cm, cluster_id, pattern, evs) ==
    LET negate == pattern # <<>> /\ pattern[1] = "!"
        inner == IF negate THEN Tail(pattern) ELSE pattern
        re == Regex_new(inner)
    IN IF negate /\ Len(pattern) = 1 THEN {[tag |-> "None", val |-> <<>>]}
       ELSE IF re.tag = "Err" THEN {[tag |-> "Err", val |-> <<>>]}
       ELSE IF cluster_id \notin DOMAIN cm THEN {[tag |-> "None", val |-> <<>>]}
       ELSE LET ids == CurrentEventIds(cm[cluster_id])
                matched == Events_regex_match(evs, re.val, ids)
            IN IF negate
               THEN {[tag |-> "Some", val |-> p] : p \in Perms(Range(ids) \ Range(matched))}
               ELSE {[tag |-> "Some", val |-> matched]}

\* set_filtered narrowing the member list itself to the matched events.
set_filtered_NarrowsMembers(cm, cluster_id, matched, pattern) ==
    IF cluster_id \in DOMAIN cm
    THEN [cm EXCEPT ![cluster_id].filter = Append(@, pattern),
                    ![cluster_id].filtered_events = Append(@, matched),
                    ![cluster_id].event_ids = matched]
    ELSE cm

\* set_filtered recording the pattern without its '!' prefix.
set_filtered_StripsNegation(cm, cluster_id, matched, pattern) ==
    IF cluster_id \in DOMAIN cm
    THEN [cm EXCEPT ![cluster_id].filter =
                        Append(@, IF pattern # <<>> /\ pattern[1] = "!" THEN Tail(pattern)
                                  ELSE pattern),
                    ![cluster_id].filtered_events = Append(@, matched)]
    ELSE cm

\* Clusters::set_filtered
set_filtered(cm, cluster_id, matched, pattern) ==
    IF cluster_id \in DOMAIN cm
    THEN [cm EXCEPT ![cluster_id].filter = Append(@, pattern),
                    ![cluster_id].filtered_events = Append(@, matched)]
    ELSE cm

\* clear_filter undoing only the most recent event filter.
clear_filter_PopsTop(cm, cluster_id) ==
    IF cluster_id \in DOMAIN cm /\ cm[cluster_id].filter # <<>>
    THEN [cm EXCEPT ![cluster_id].filtered_events = SubSeq(@, 1, Len(@) - 1),
                    ![cluster_id].filter = SubSeq(@, 1, Len(@) - 1)]
    ELSE cm

\* Clusters::clear_filter
clear_filter(cm, cluster_id) ==
    IF cluster_id \in DOMAIN cm
    THEN [cm EXCEPT ![cluster_id].filtered_events = <<>>, ![cluster_id].filter = <<>>]
    ELSE cm

\* set_qualifier reporting a change whether or not the value differed.
Clusters_set_qualifier_AlwaysChanged(cm, cid, qualifier) ==
    IF cid \in DOMAIN cm
    THEN [cmap |-> [cm EXCEPT ![cid].new_qualifier = qualifier], changed |-> TRUE]
    ELSE [cmap |-> cm, changed |-> FALSE]

\* Members::set_qualifier and Clusters::set_qualifier: the map afterwards and
\* whether the value changed.
Clusters_set_qualifier(cm, cid, qualifier) ==
    IF cid \in DOMAIN cm /\ cm[cid].new_qualifier # qualifier
    THEN [cmap |-> [cm EXCEPT ![cid].new_qualifier = qualifier], changed |-> TRUE]
    ELSE [cmap |-> cm, changed |-> FALSE]

(***************************************************************************)
(* Navigation engine (matcher.rs).                                         *)
(***************************************************************************)
\* The base round pushed by TitleMatch::new.
BaseRound(ids) ==
    [filtertype |-> "NoFilter", op |-> "EQ", pattern |-> STR_Clusters, clusters |-> ids]

\* TitleMatch::find_cluster
find_cluster(rs, cid) ==
    IF rs = <<>> \/ ~Contains(Last(rs).clusters, cid) THEN None
    ELSE Some((CHOOSE i \in 1..Len(Last(rs).clusters) :
                  /\ Last(rs).clusters[i] = cid
                  /\ \A j \in 1..(i - 1) : Last(rs).clusters[j] # cid) - 1)

\* filter_by without the test for an empty result.
filter_by_PushesEmpty(rs, cm, ft, op, value) ==
    IF rs = <<>> THEN [rounds |-> rs, ret |-> None]
    ELSE LET found == filter_clusters(cm, Last(rs).clusters, ft, op, value)
             pattern == IF ft = "Qualifier" THEN value
                        ELSE FilterOp_display(op) \o <<" ">> \o value
         IN [rounds |-> Append(rs, [filtertype |-> ft, op |-> op,
                                    pattern |-> pattern, clusters |-> found]),
             ret |-> Some(Len(found))]

\* TitleMatch::filter_by: the rounds afterwards and the value returned.
filter_by(rs, cm, ft, op, value) ==
    IF rs = <<>> THEN [rounds |-> rs, ret |-> None]
    ELSE LET found == filter_clusters(cm, Last(rs).clusters, ft, op, value)
             pattern == IF ft = "Qualifier" THEN value
                        ELSE FilterOp_display(op) \o <<" ">> \o value
         IN IF found = <<>> THEN [rounds |-> rs, ret |-> None]
            ELSE [rounds |-> Append(rs, [filtertype |-> ft, op |-> op,
                                         pattern |-> pattern, clusters |-> found]),
                  ret |-> Some(Len(found))]

\* str::split(':')
RECURSIVE SplitColon(_)
SplitColon(s) ==
    IF ~Contains(s, ":") THEN <<s>>
    ELSE LET i == CHOOSE k \in 1..Len(s) : s[k] = ":" /\ \A j \in 1..(k - 1) : s[j] # ":"
         IN <<SubSeq(s, 1, i - 1)>> \o SplitColon(SubSeq(s, i + 1, Len(s)))

\* parse_pattern_id
parse_pattern_id(pattern_id) ==
    IF ~IsSome(pattern_id) THEN <<0, 0>>
    ELSE LET f == SplitColon(pattern_id.val)
         IN <<UnwrapOrZero(ParseUsize(f[1])),
              IF Len(f) >= 2 THEN UnwrapOrZero(ParseUsize(f[2])) ELSE 0>>

\* filter_by_label pushing every cluster that carries the label, in the round or not.
filter_by_label_AllLabeled(rs, ls, ft, op, pattern_id) ==
    IF rs = <<>> THEN [rounds |-> rs, ret |-> None]
    ELSE LET id == parse_pattern_id(pattern_id)
             found == find_clusters(ls, id[1], id[2])
             pattern == IF IsSome(pattern_id) THEN pattern_id.val ELSE STR_All
         IN IF found = <<>> THEN [rounds |-> rs, ret |-> None]
            ELSE [rounds |-> Append(rs, [filtertype |-> ft, op |-> op,
                                         pattern |-> pattern, clusters |-> found]),
                  ret |-> Some(Len(found))]

\* TitleMatch::filter_by_label
filter_by_label(rs, ls, ft, op, pattern_id) ==
    IF rs = <<>> THEN [rounds |-> rs, ret |-> None]
    ELSE LET id == parse_pattern_id(pattern_id)
             last == Last(rs).clusters
             found == SelectSeq(find_clusters(ls, id[1], id[2]), LAMBDA c : Contains(last, c))
             pattern == IF IsSome(pattern_id) THEN pattern_id.val ELSE STR_All
         IN IF found = <<>> THEN [rounds |-> rs, ret |-> None]
            ELSE [rounds |-> Append(rs, [filtertype |-> ft, op |-> op,
                                         pattern |-> pattern, clusters |-> found]),
                  ret |-> Some(Len(found))]

\* filter_by_regex taking the negation over the base round instead of the last.
filter_by_regex_NegatesOverBase(rs, cm, evs, pattern) ==
    IF rs = <<>> THEN [rounds |-> rs, ret |-> None, err |-> FALSE]
    ELSE LET last == Last(rs).clusters
             negate == pattern # <<>> /\ pattern[1] = "!"
             inner == IF negate THEN Tail(pattern) ELSE pattern
             m == Clusters_regex_match(cm, last, inner, evs)
             found == IF negate
                      THEN SelectSeq(rs[1].clusters, LAMBDA cid : ~Contains(m.val, cid))
                      ELSE m.val
         IN IF negate /\ Len(pattern) = 1 THEN [rounds |-> rs, ret |-> None, err |-> FALSE]
            ELSE IF m.tag = "Err" THEN [rounds |-> rs, ret |-> None, err |-> TRUE]
            ELSE IF found = <<>> THEN [rounds |-> rs, ret |-> None, err |-> FALSE]
            ELSE [rounds |-> Append(rs, [filtertype |-> "Regex", op |-> "EQ",
                                         pattern |-> inner, clusters |-> found]),
                  ret |-> Some(Len(found)), err |-> FALSE]

\* TitleMatch::filter_by_regex; err tells whether an error was reported.
filter_by_regex(rs, cm, evs, pattern) ==
    IF rs = <<>> THEN [rounds |-> rs, ret |-> None, err |-> FALSE]
    ELSE LET last == Last(rs).clusters
             negate == pattern # <<>> /\ pattern[1] = "!"
             inner == IF negate THEN Tail(pattern) ELSE pattern
             m == Clusters_regex_match(cm, last, inner, evs)
             found == IF negate
                      THEN SelectSeq(last, LAMBDA cid : ~Contains(m.val, cid))
                      ELSE m.val
         IN IF negate /\ Len(pattern) = 1 THEN [rounds |-> rs, ret |-> None, err |-> FALSE]
            ELSE IF m.tag = "Err" THEN [rounds |-> rs, ret |-> None, err |-> TRUE]
            ELSE IF found = <<>> THEN [rounds |-> rs, ret |-> None, err |-> FALSE]
            ELSE [rounds |-> Append(rs, [filtertype |-> "Regex", op |-> "EQ",
                                         pattern |-> inner, clusters |-> found]),
                  ret |-> Some(Len(found)), err |-> FALSE]

\* filter_event recording nothing when no event matches, as a cluster-level
\* filter does.
filter_event_SkipsEmpty(rs, cm, evs, ft, pattern, tk) ==
    IF ~IsSome(tk) THEN {[cmap |-> cm, ret |-> [tag |-> "Ok", val |-> 0]]}
    ELSE IF rs = <<>> \/ tk.val >= Len(Last(rs).clusters)
    THEN {[cmap |-> cm, ret |-> [tag |-> "Err", val |-> 0]]}
    ELSE LET cluster_id == Last(rs).clusters[tk.val + 1]
         IN IF ft = "NoFilter"
            THEN {[cmap |-> clear_filter(cm, cluster_id), ret |-> [tag |-> "Ok", val |-> 0]]}
            ELSE IF ft = "Regex" /\ IsSome(pattern)
            THEN {IF r.tag = "Some" /\ r.val # <<>>
                  THEN [cmap |-> set_filtered(cm, cluster_id, r.val, pattern.val),
                        ret |-> [tag |-> "Ok", val |-> Len(r.val)]]
                  ELSE [cmap |-> cm, ret |-> [tag |-> "Ok", val |-> 0]]
                    : r \in regex_match_in_this_cluster(cm, cluster_id, pattern.val, evs)}
            ELSE {[cmap |-> cm, ret |-> [tag |-> "Ok", val |-> 0]]}

\* TitleMatch::filter_event: the set of outcomes [cmap, ret], ret being
\* Ok(count) or Err.
filter_event(rs, cm, evs, ft, pattern, tk) ==
    IF ~IsSome(tk) THEN {[cmap |-> cm, ret |-> [tag |-> "Ok", val |-> 0]]}
    ELSE IF rs = <<>> \/ tk.val >= Len(Last(rs).clusters)
    THEN {[cmap |-> cm, ret |-> [tag |-> "Err", val |-> 0]]}
    ELSE LET cluster_id == Last(rs).clusters[tk.val + 1]
         IN IF ft = "NoFilter"
            THEN {[cmap |-> clear_filter(cm, cluster_id), ret |-> [tag |-> "Ok", val |-> 0]]}
            ELSE IF ft = "Regex" /\ IsSome(pattern)
            THEN {IF r.tag = "Some"
                  THEN [cmap |-> set_filtered(cm, cluster_id, r.val, pattern.val),
                        ret |-> [tag |-> "Ok", val |-> Len(r.val)]]
                  ELSE [cmap |-> cm, ret |-> [tag |-> "Ok", val |-> 0]]
                    : r \in regex_match_in_this_cluster(cm, cluster_id, pattern.val, evs)}
            ELSE {[cmap |-> cm, ret |-> [tag |-> "Ok", val |-> 0]]}

\* TitleMatch::remove_filter
remove_filter(rs) ==
    IF rs = <<>> THEN [rounds |-> rs, ret |-> [tag |-> "Err", val |-> 0]]
    ELSE [rounds |-> Front(rs), ret |-> [tag |-> "Ok", val |-> 0]]

\* The loop of set_qualifier over the clusters of the round: the map
\* afterwards and the number of clusters changed.
RECURSIVE SetQualifierAll(_, _, _)
SetQualifierAll(cm, ids, nq) ==
    IF ids = <<>> THEN [cmap |-> cm, cnt |-> 0]
    ELSE LET one == Clusters_set_qualifier(cm, Head(ids), nq)
             rest == SetQualifierAll(one.cmap, Tail(ids), nq)
         IN [cmap |-> rest.cmap, cnt |-> rest.cnt + (IF one.changed THEN 1 ELSE 0)]

\* set_qualifier taking the first cluster of the round whatever the index.
set_qualifier_FirstCluster(rs, cm, idx, qualifier, all) ==
    LET nq == Qualifier_from_str(qualifier)
    IN IF rs = <<>> \/ ~IsSome(nq) THEN [cmap |-> cm, ret |-> None]
       ELSE IF all
       THEN LET r == SetQualifierAll(cm, Last(rs).clusters, nq.val)
            IN [cmap |-> r.cmap, ret |-> Some(r.cnt)]
       ELSE IF idx >= Len(Last(rs).clusters) THEN [cmap |-> cm, ret |-> None]
       ELSE LET one == Clusters_set_qualifier(cm, Last(rs).clusters[1], nq.val)
            IN [cmap |-> one.cmap, ret |-> Some(IF one.changed THEN 1 ELSE 0)]

\* TitleMatch::set_qualifier
set_qualifier(rs, cm, idx, qualifier, all) ==
    LET nq == Qualifier_from_str(qualifier)
    IN IF rs = <<>> \/ ~IsSome(nq) THEN [cmap |-> cm, ret |-> None]
       ELSE IF all
       THEN LET r == SetQualifierAll(cm, Last(rs).clusters, nq.val)
            IN [cmap |-> r.cmap, ret |-> Some(r.cnt)]
       ELSE IF idx >= Len(Last(rs).clusters) THEN [cmap |-> cm, ret |-> None]
       ELSE LET one == Clusters_set_qualifier(cm, Last(rs).clusters[idx + 1], nq.val)
            IN [cmap |-> one.cmap, ret |-> Some(IF one.changed THEN 1 ELSE 0)]

(***************************************************************************)
(* The state after construction: TitleMatch::new and the locals of run.    *)
(***************************************************************************)
Init ==
    \E saved \in SavedClustersFiles :
        LET ls == Labels_new(LabelsFile)
            cs == Clusters_new(saved, ls)
            evs == Events_new(EventsFile, ColumnLen, Clusters_event_ids(cs.clusters_map))
        IN /\ cs.clusters # <<>>
           /\ DOMAIN evs # {}
           /\ labels = ls
           /\ clusters = cs.clusters
           /\ clusters_map = cs.clusters_map
           /\ events = evs
           /\ rounds = <<BaseRound(cs.clusters)>>
           /\ prompt = <<>>
           /\ title = STR_Clusters
           /\ ticks = None
           /\ limit = Len(cs.clusters)
           /\ reverse = FALSE
           /\ input = <<>>
           /\ output = None

\* The state as one record, and the step to a state given as a record.
State ==
    [clusters |-> clusters, clusters_map |-> clusters_map, events |-> events,
     labels |-> labels, rounds |-> rounds, prompt |-> prompt, title |-> title,
     ticks |-> ticks, limit |-> limit, reverse |-> reverse]

Becomes(st) ==
    /\ clusters' = st.clusters
    /\ clusters_map' = st.clusters_map
    /\ events' = st.events
    /\ labels' = st.labels
    /\ rounds' = st.rounds
    /\ prompt' = st.prompt
    /\ title' = st.title
    /\ ticks' = st.ticks
    /\ limit' = st.limit
    /\ reverse' = st.reverse
    /\ UNCHANGED <<input, output>>

(***************************************************************************)
(* The command loop (main.rs, run).  A command is (cmdtype, opt) as        *)
(* get_user_input returns it; each run_* is one iteration of the loop for  *)
(* that command, from state st to the state at the next prompt.            *)
(***************************************************************************)
\* do_filtering
do_filtering(rs, cm, ls, evs, ft, op, pattern) ==
    IF ft \in {"Count", "Qualifier", "Score"}
    THEN IF IsSome(pattern) THEN filter_by(rs, cm, ft, op, pattern.val)
         ELSE [rounds |-> rs, ret |-> None]
    ELSE IF ft = "Label" THEN filter_by_label(rs, ls, ft, op, pattern)
    ELSE IF ft = "Regex"
    THEN IF IsSome(pattern)
         THEN [rounds |-> filter_by_regex(rs, cm, evs, pattern.val).rounds,
               ret |-> filter_by_regex(rs, cm, evs, pattern.val).ret]
         ELSE [rounds |-> rs, ret |-> None]
    ELSE [rounds |-> rs, ret |-> None]

\* The title after a successful Filter command.
FilterTitle(t, ft, op, opt) ==
    IF IsSome(opt)
    THEN t \o <<"(">> \o FilterType_debug(ft) \o <<" ">> \o FilterOp_display(op)
           \o <<" ">> \o opt.val \o <<")">>
    ELSE IF ft = "Label"
    THEN t \o <<"(">> \o FilterType_debug(ft) \o <<" ">> \o FilterOp_display(op)
           \o <<" ">> \o STR_All \o <<")">>
    ELSE t

\* do_goto taking no account of the reverse display mode.
do_goto_IgnoresReverse(cmd, tk, rev) ==
    IF IsSome(tk)
    THEN IF cmd = "GoNext" THEN tk.val + 1
         ELSE IF tk.val = 0 THEN 0
         ELSE tk.val - 1
    ELSE 0

\* do_goto
do_goto(cmd, tk, rev) ==
    IF IsSome(tk)
    THEN IF (cmd = "GoNext" /\ ~rev) \/ (cmd = "GoPrev" /\ rev) THEN tk.val + 1
         ELSE IF tk.val = 0 THEN 0
         ELSE tk.val - 1
    ELSE 0

\* The end of a loop iteration that does not `continue`: the cursor is
\* clamped into the visible round, or set to the first cluster.
ClampTicks(tk, lim) ==
    IF IsSome(tk) THEN (IF tk.val >= lim THEN Some(lim - 1) ELSE tk) ELSE Some(0)

\* CliCmd::ClusterID
run_ClusterID(st, s) ==
    IF IsSome(ParseUsize(s))
    THEN [st EXCEPT !.ticks = ClampTicks(find_cluster(st.rounds, ParseUsize(s).val), st.limit)]
    ELSE [st EXCEPT !.ticks = ClampTicks(st.ticks, st.limit)]

\* CliCmd::Event: the states the iteration may end in.
run_Event(st, ft, opt) ==
    IF ft \in {"NoFilter", "Regex"}
    THEN {[st EXCEPT !.clusters_map = out.cmap, !.ticks = ClampTicks(st.ticks, st.limit)]
            : out \in filter_event(st.rounds, st.clusters_map, st.events, ft, opt, st.ticks)}
    ELSE {[st EXCEPT !.ticks = ClampTicks(st.ticks, st.limit)]}

\* run_Exit with the saved title dropped instead of restored.
run_Exit_KeepsTitle(st) ==
    IF st.prompt # <<>> /\ remove_filter(st.rounds).ret.tag = "Ok"
    THEN [st EXCEPT !.rounds = remove_filter(st.rounds).rounds,
                    !.prompt = Front(st.prompt),
                    !.ticks = Last(st.prompt).ticks,
                    !.limit = Last(st.prompt).limit]
    ELSE st

\* run_Exit without the test of the saved-prompt stack.
run_Exit_Unguarded(st) ==
    IF remove_filter(st.rounds).ret.tag = "Ok"
    THEN [st EXCEPT !.rounds = remove_filter(st.rounds).rounds,
                    !.prompt = IF st.prompt # <<>> THEN Front(st.prompt) ELSE st.prompt]
    ELSE st

\* run_Exit leaving the cursor where it was in the popped round.
run_Exit_KeepsCursor(st) ==
    IF st.prompt # <<>> /\ remove_filter(st.rounds).ret.tag = "Ok"
    THEN [st EXCEPT !.rounds = remove_filter(st.rounds).rounds,
                    !.prompt = Front(st.prompt),
                    !.title = Last(st.prompt).title,
                    !.limit = Last(st.prompt).limit]
    ELSE st

\* run_Exit undoing, for the clusters of the popped round, the qualifier
\* edits and the event filters.
run_Exit_UndoesEdits(st) ==
    IF st.prompt # <<>> /\ remove_filter(st.rounds).ret.tag = "Ok"
    THEN [st EXCEPT !.rounds = remove_filter(st.rounds).rounds,
                    !.clusters_map =
                        [c \in DOMAIN st.clusters_map |->
                            IF Contains(Last(st.rounds).clusters, c)
                            THEN [st.clusters_map[c] EXCEPT
                                     !.new_qualifier = st.clusters_map[c].qualifier,
                                     !.filtered_events = <<>>, !.filter = <<>>]
                            ELSE st.clusters_map[c]],
                    !.prompt = Front(st.prompt),
                    !.title = Last(st.prompt).title,
                    !.ticks = Last(st.prompt).ticks,
                    !.limit = Last(st.prompt).limit]
    ELSE st

\* CliCmd::Exit
run_Exit(st) ==
    IF st.prompt # <<>> /\ remove_filter(st.rounds).ret.tag = "Ok"
    THEN [st EXCEPT !.rounds = remove_filter(st.rounds).rounds,
                    !.prompt = Front(st.prompt),
                    !.title = Last(st.prompt).title,
                    !.ticks = Last(st.prompt).ticks,
                    !.limit = Last(st.prompt).limit]
    ELSE st

\* run_Filter leaving the cursor where it was in the round beneath.
run_Filter_KeepsCursor(st, ft, op, opt) ==
    LET r == do_filtering(st.rounds, st.clusters_map, st.labels, st.events, ft, op, opt)
    IN IF IsSome(r.ret)
       THEN [st EXCEPT !.rounds = r.rounds,
                       !.prompt = Append(st.prompt, [title |-> st.title, ticks |-> st.ticks,
                                                     limit |-> st.limit]),
                       !.title = FilterTitle(st.title, ft, op, opt),
                       !.limit = r.ret.val]
       ELSE [st EXCEPT !.rounds = r.rounds]

\* CliCmd::Filter
run_Filter(st, ft, op, opt) ==
    LET r == do_filtering(st.rounds, st.clusters_map, st.labels, st.events, ft, op, opt)
    IN IF IsSome(r.ret)
       THEN [st EXCEPT !.rounds = r.rounds,
                       !.prompt = Append(st.prompt, [title |-> st.title, ticks |-> st.ticks,
                                                     limit |-> st.limit]),
                       !.title = FilterTitle(st.title, ft, op, opt),
                       !.limit = r.ret.val,
                       !.ticks = None]
       ELSE [st EXCEPT !.rounds = r.rounds]

\* CliCmd::GoNext and CliCmd::GoPrev
run_Go(st, cmd) ==
    [st EXCEPT !.ticks = ClampTicks(Some(do_goto(cmd, st.ticks, st.reverse)), st.limit)]

\* CliCmd::Jump
run_Jump(st, s) ==
    IF IsSome(ParseUsize(s)) /\ ParseUsize(s).val > 0
    THEN [st EXCEPT !.ticks = ClampTicks(Some(ParseUsize(s).val - 1), st.limit)]
    ELSE [st EXCEPT !.ticks = ClampTicks(st.ticks, st.limit)]

\* CliCmd::Set(ConfigType::Reverse(x))
run_SetReverse(st, x) == [st EXCEPT !.reverse = x]

\* run_SetQualifier writing the qualifier seeded at load as well.
run_SetQualifier_OverwritesSeed(st, all, s) ==
    LET cm == IF IsSome(st.ticks)
              THEN set_qualifier(st.rounds, st.clusters_map, st.ticks.val, s, all).cmap
              ELSE st.clusters_map
    IN [st EXCEPT !.clusters_map = [c \in DOMAIN cm |->
                                       [cm[c] EXCEPT !.qualifier = cm[c].new_qualifier]],
                  !.ticks = ClampTicks(st.ticks, st.limit)]

\* run_SetQualifier filtering the top round again when a Qualifier filter made it.
run_SetQualifier_RefiltersRound(st, all, s) ==
    LET cm == IF IsSome(st.ticks)
              THEN set_qualifier(st.rounds, st.clusters_map, st.ticks.val, s, all).cmap
              ELSE st.clusters_map
        top == Last(st.rounds)
        kept == IF top.filtertype = "Qualifier"
                THEN filter_clusters(cm, top.clusters, "Qualifier", top.op, top.pattern)
                ELSE top.clusters
    IN [st EXCEPT !.clusters_map = cm,
                  !.rounds = [@ EXCEPT ![Len(@)].clusters = kept],
                  !.ticks = ClampTicks(st.ticks, st.limit)]

\* CliCmd::SetQualifier
run_SetQualifier(st, all, s) ==
    [st EXCEPT !.clusters_map =
                   IF IsSome(st.ticks)
                   THEN set_qualifier(st.rounds, st.clusters_map, st.ticks.val, s, all).cmap
                   ELSE st.clusters_map,
               !.ticks = ClampTicks(st.ticks, st.limit)]

(***************************************************************************)
(* The commands a user types, as get_user_input returns them.              *)
(***************************************************************************)
CountLiterals == {<<"2">>}
ScoreLiterals == {<<"1">>}
QualifierNames == {STR_benign}
FilterQualifierNames == {STR_benign, STR_suspicious}
LabelIds == {None, Some(<<"1", ":", "2">>)}
RegexPatterns == {<<"a">>, <<"!", "a">>, <<"!">>, <<"(">>}
JumpLiterals == {<<"0">>, <<"2">>, <<"9">>}
ClusterIdLiterals == {<<"1">>, <<"7">>}

\* CliCmd::Filter(t, op) with its option, as <<t, op, opt>>.
FilterCommands ==
    {<<"Count", op, Some(y)>> : op \in {"GE"}, y \in {v \in CountLiterals : IsSome(ParseUsize(v))}}
    \cup {<<"Score", op, Some(y)>> : op \in {"NE"}, y \in {v \in ScoreLiterals : IsSome(ParseF32(v))}}
    \cup {<<"Qualifier", "EQ", Some(x)>> : x \in {v \in FilterQualifierNames : IsSome(Qualifier_from_str(v))}}
    \cup {<<"Label", "EQ", x>> : x \in LabelIds}
    \cup {<<"Regex", "EQ", Some(x)>> : x \in RegexPatterns}

\* CliCmd::Event(t, op) with its option, as <<t, opt>>.
EventCommands ==
    {<<"NoFilter", None>>} \cup {<<"Regex", Some(x)>> : x \in RegexPatterns}

\* The number of event filters recorded over all clusters.
RECURSIVE EventFilterCount(_, _)
EventFilterCount(cm, S) ==
    IF S = {} THEN 0
    ELSE LET c == CHOOSE x \in S : TRUE
         IN Len(cm[c].filter) + EventFilterCount(cm, S \ {c})

CmdClusterID(s) == \E st \in {run_ClusterID(State, s)} : Becomes(st)

CmdEvent(ft, opt) ==
    \E st \in run_Event(State, ft, opt) :
        /\ EventFilterCount(st.clusters_map, DOMAIN st.clusters_map) <= MaxEventFilters
        /\ Becomes(st)

CmdExit == \E st \in {run_Exit(State)} : Becomes(st)

CmdFilter(ft, op, opt) ==
    \E st \in {run_Filter(State, ft, op, opt)} :
        /\ Len(st.rounds) <= MaxRounds
        /\ Becomes(st)

CmdGo(cmd) == \E st \in {run_Go(State, cmd)} : Becomes(st)

CmdJump(s) == \E st \in {run_Jump(State, s)} : Becomes(st)

CmdSetReverse(x) == \E st \in {run_SetReverse(State, x)} : Becomes(st)

CmdSetQualifier(all, s) == \E st \in {run_SetQualifier(State, all, s)} : Becomes(st)

Next ==
    \/ \E s \in ClusterIdLiterals : CmdClusterID(s)
    \/ \E c \in EventCommands : CmdEvent(c[1], c[2])
    \/ CmdExit
    \/ \E c \in FilterCommands : CmdFilter(c[1], c[2], c[3])
    \/ \E cmd \in {"GoNext", "GoPrev"} : CmdGo(cmd)
    \/ \E s \in JumpLiterals : CmdJump(s)
    \/ \E x \in BOOLEAN : CmdSetReverse(x)
    \/ \E all \in BOOLEAN, s \in QualifierNames : CmdSetQualifier(all, s)

Spec == Init /\ [][Next]_vars

(***************************************************************************)
(* The inputs the properties range over: every filter command the command  *)
(* grammar admits over these literals, names and patterns.                 *)
(***************************************************************************)
AllCountLiterals ==
    {<<"0">>, <<"1">>, <<"2">>, <<"3">>, <<"+", "1">>, <<"-", "1">>, <<"-", "0">>, <<"x">>}
AllScoreLiterals == {<<"0">>, <<"1">>, <<"2">>, <<"-", "1">>, <<"x">>}
AllQualifierNames ==
    {STR_benign, STR_suspicious, STR_unknown, STR_mixed, <<"B", "e", "n", "i", "g", "n">>, <<"x">>}
AllLabelIds ==
    {None, Some(<<"1", ":", "2">>), Some(<<"1", ":", "1">>), Some(<<"2">>), Some(<<"0", ":", "1">>),
     Some(<<"3">>), Some(<<"x">>)}
AllRegexPatterns ==
    {<<"a">>, <<"b">>, <<"a", "b">>, <<"!", "a">>, <<"!", "b">>, <<"!">>, <<"(">>, <<"!", "(">>,
     <<"!", "!">>}

AllFilterCommands ==
    {<<"Count", op, Some(y)>> : op \in FilterOps, y \in {v \in AllCountLiterals : IsSome(ParseUsize(v))}}
    \cup {<<"Score", op, Some(y)>> : op \in FilterOps, y \in {v \in AllScoreLiterals : IsSome(ParseF32(v))}}
    \cup {<<"Qualifier", "EQ", Some(x)>> : x \in {v \in AllQualifierNames : IsSome(Qualifier_from_str(v))}}
    \cup {<<"Label", "EQ", x>> : x \in AllLabelIds}
    \cup {<<"Regex", "EQ", Some(x)>> : x \in AllRegexPatterns}

\* The visible cluster-id list of a state.
Visible(st) == Last(st.rounds).clusters

(***************************************************************************)
(* C1: from every reachable state and for every filter command, if the     *)
(* command pushes a round then an exit issued right after it restores the  *)
(* visible cluster-id list and the title that were in effect before it.    *)
(***************************************************************************)
C1_RoundTrip ==
    \A c \in AllFilterCommands :
        LET s1 == run_Filter(State, c[1], c[2], c[3])
            s2 == run_Exit(s1)
        IN Len(s1.rounds) > Len(rounds) =>
              /\ Visible(s2) = Visible(State)
              /\ s2.title = title
              /\ s2.rounds = rounds

\* A filter has pushed a round over the base and the exit is about to undo it.
C1_Witness ==
    /\ Len(rounds) = 2
    /\ title # STR_Clusters
    /\ Visible(State) # clusters
    /\ run_Exit(State).title = STR_Clusters
    /\ Visible(run_Exit(State)) = clusters

(***************************************************************************)
(* C2: a filter command pushes exactly one round, holding the computed     *)
(* result, when that result is non-empty; when it is empty the command     *)
(* returns None and the round stack, the title, the cursor and the visible *)
(* count stay as they were.                                                *)
(***************************************************************************)
\* The id list a filter command computes over the visible round of st.
ExpectedFilterResult(st, ft, op, opt) ==
    LET last == Visible(st)
    IN IF ft \in {"Count", "Score", "Qualifier"}
       THEN IF IsSome(opt) THEN filter_clusters(st.clusters_map, last, ft, op, opt.val) ELSE <<>>
       ELSE IF ft = "Label"
       THEN LET id == parse_pattern_id(opt)
            IN SelectSeq(find_clusters(st.labels, id[1], id[2]), LAMBDA c : Contains(last, c))
       ELSE IF ~IsSome(opt) \/ opt.val = <<"!">> THEN <<>>
       ELSE LET negate == opt.val # <<>> /\ opt.val[1] = "!"
                m == Clusters_regex_match(st.clusters_map, last,
                                          IF negate THEN Tail(opt.val) ELSE opt.val, st.events)
            IN IF m.tag = "Err" THEN <<>>
               ELSE IF negate THEN SelectSeq(last, LAMBDA c : ~Contains(m.val, c))
               ELSE m.val

C2_FilterPushesOneRoundOrNothing ==
    \A c \in AllFilterCommands :
        LET r == do_filtering(rounds, clusters_map, labels, events, c[1], c[2], c[3])
            s1 == run_Filter(State, c[1], c[2], c[3])
            want == ExpectedFilterResult(State, c[1], c[2], c[3])
        IN IF want # <<>>
           THEN /\ r.ret = Some(Len(want))
                /\ Len(r.rounds) = Len(rounds) + 1
                /\ Front(r.rounds) = rounds
                /\ Last(r.rounds).clusters = want
                /\ s1.rounds = r.rounds
           ELSE /\ r.ret = None
                /\ r.rounds = rounds
                /\ s1.rounds = rounds
                /\ s1.title = title
                /\ s1.ticks = ticks
                /\ s1.limit = limit

\* A filter has narrowed the view, the cursor is set, and both outcomes are
\* at hand: a command that matches and one that matches nothing.
C2_Witness ==
    /\ Len(rounds) = 2
    /\ IsSome(ticks)
    /\ \E c \in AllFilterCommands : ExpectedFilterResult(State, c[1], c[2], c[3]) = <<>>
    /\ \E c \in AllFilterCommands :
          /\ ExpectedFilterResult(State, c[1], c[2], c[3]) # <<>>
          /\ ExpectedFilterResult(State, c[1], c[2], c[3]) # Visible(State)

(***************************************************************************)
(* C3: remove_filter called while the stack holds only the base round      *)
(* returns an error and does not pop the base round.                       *)
(***************************************************************************)
C3_ExitFailsAtBaseRound ==
    Len(rounds) = 1 =>
        /\ remove_filter(rounds).ret.tag = "Err"
        /\ remove_filter(rounds).rounds = rounds

(***************************************************************************)
(* C4: in every state of the command loop the round stack has depth >= 1   *)
(* and its bottom round is the unfiltered cluster list built at load; an   *)
(* exit command issued at depth 1 changes nothing.                         *)
(***************************************************************************)
C4_BaseRoundStays ==
    /\ Len(rounds) >= 1
    /\ rounds[1] = BaseRound(clusters)
    /\ Len(rounds) = 1 => run_Exit(State) = State

\* Back at depth 1 after commands of several kinds have run: a qualifier was
\* edited, an event filter is recorded and the cursor has moved.
C4_Witness ==
    /\ Len(rounds) = 1
    /\ IsSome(ticks) /\ ticks.val > 0
    /\ \E c \in DOMAIN clusters_map : clusters_map[c].new_qualifier # clusters_map[c].qualifier
    /\ \E c \in DOMAIN clusters_map : clusters_map[c].filter # <<>>

(***************************************************************************)
(* C5: a cluster-level regex filter given a syntactically invalid pattern  *)
(* reports an error, returns None and leaves the round stack as it was.    *)
(***************************************************************************)
C5_InvalidRegexLeavesStack ==
    \A p \in AllRegexPatterns :
        Regex_new(p).tag = "Err" =>
            LET r == filter_by_regex(rounds, clusters_map, events, p)
            IN /\ r.err
               /\ r.ret = None
               /\ r.rounds = rounds

\* A regex round is on the stack when the invalid pattern arrives.
C5_Witness ==
    /\ Len(rounds) = 2
    /\ Last(rounds).filtertype = "Regex"
    /\ \E p \in AllRegexPatterns : Regex_new(p).tag = "Err"

(***************************************************************************)
(* C6: the Count filter keeps exactly the clusters of the current round    *)
(* whose size satisfies 'size op n', for every operator and literal n.     *)
(***************************************************************************)
\* An integer literal: an optional sign and at least one digit.
IsIntegerLiteral(s) ==
    \/ AllDigits(s)
    \/ s # <<>> /\ s[1] \in {"+", "-"} /\ AllDigits(Tail(s))

IntegerValue(s) ==
    IF AllDigits(s) THEN DecimalValue(s)
    ELSE IF s[1] = "-" THEN 0 - DecimalValue(Tail(s))
    ELSE DecimalValue(Tail(s))

\* a op b, for the six operators as the user writes them.
OpHolds(a, op, b) ==
    \/ op = "L" /\ a < b
    \/ op = "LE" /\ (a < b \/ a = b)
    \/ op = "G" /\ b < a
    \/ op = "GE" /\ (b < a \/ a = b)
    \/ op = "EQ" /\ a = b
    \/ op = "NE" /\ a # b

\* The claim as stated, for every integer literal.
C6_CountFilterAnyIntegerLiteral ==
    \A op \in FilterOps : \A lit \in {v \in AllCountLiterals : IsIntegerLiteral(v)} :
        filter_clusters(clusters_map, Visible(State), "Count", op, lit)
          = SelectSeq(Visible(State),
                      LAMBDA c : OpHolds(clusters_map[c].size, op, IntegerValue(lit)))

\* The claim for the literals that denote a non-negative integer.
C6_CountFilterSoundAndComplete ==
    \A op \in FilterOps :
        \A lit \in {v \in AllCountLiterals : IsIntegerLiteral(v) /\ IntegerValue(v) >= 0} :
            /\ filter_clusters(clusters_map, Visible(State), "Count", op, lit)
                 = SelectSeq(Visible(State),
                             LAMBDA c : OpHolds(clusters_map[c].size, op, IntegerValue(lit)))
            /\ IsSome(ParseUsize(lit)) =>
                 Visible(run_Filter(State, "Count", op, Some(lit)))
                   \in {Visible(State),
                        SelectSeq(Visible(State),
                                  LAMBDA c : OpHolds(clusters_map[c].size, op, IntegerValue(lit)))}

\* A Count filter has acted and has excluded a cluster of the round beneath.
C6_Witness ==
    /\ Len(rounds) = 2
    /\ Last(rounds).filtertype = "Count"
    /\ Len(Visible(State)) < Len(rounds[1].clusters)
    /\ \A c \in Range(Visible(State)) : clusters_map[c].size >= 2
    /\ \E c \in Range(rounds[1].clusters) : clusters_map[c].size < 2

(***************************************************************************)
(* C7: Count, Score, Qualifier and Regex filtering return the surviving    *)
(* ids in the order of the input list (a subsequence of it) and leave the  *)
(* cluster store as it was.                                                *)
(***************************************************************************)
C7_FiltersPreserveOrder ==
    /\ \A ft \in {"Count", "Score", "Qualifier"} : \A op \in FilterOps :
          \A lit \in AllCountLiterals \cup AllScoreLiterals \cup AllQualifierNames :
              IsSubsequence(filter_clusters(clusters_map, Visible(State), ft, op, lit),
                            Visible(State))
    /\ \A p \in AllRegexPatterns :
          /\ IsSubsequence(Clusters_regex_match(clusters_map, Visible(State), p, events).val,
                           Visible(State))
          /\ IsSubsequence(Visible([rounds |-> filter_by_regex(rounds, clusters_map, events, p).rounds]),
                           Visible(State))
    /\ \A c \in {x \in AllFilterCommands : x[1] # "Label"} :
          /\ run_Filter(State, c[1], c[2], c[3]).clusters_map = clusters_map
          /\ run_Filter(State, c[1], c[2], c[3]).clusters = clusters

\* A filter other than Label has kept at least two clusters of a longer round.
C7_Witness ==
    /\ Len(rounds) = 2
    /\ Last(rounds).filtertype \in {"Count", "Score", "Qualifier", "Regex"}
    /\ Len(Visible(State)) >= 2
    /\ Len(Visible(State)) < Len(rounds[1].clusters)

(***************************************************************************)
(* C8: label filtering pushes the intersection of find_clusters with the   *)
(* current round, in the relative order of the current round.              *)
(***************************************************************************)
C8_LabelFilterKeepsRoundOrder ==
    \A id \in AllLabelIds :
        LET r == filter_by_label(rounds, labels, "Label", "EQ", id)
            pid == parse_pattern_id(id)
            found == Range(find_clusters(labels, pid[1], pid[2]))
        IN IsSome(r.ret) =>
              Last(r.rounds).clusters = SelectSeq(Visible(State), LAMBDA c : c \in found)

(***************************************************************************)
(* C9: set_qualifier(all = true, Q) on a round of N clusters returns a     *)
(* count <= N, afterwards every cluster of the round has new_qualifier Q,  *)
(* and the same call repeated at once returns 0.                           *)
(***************************************************************************)
C9_SetQualifierAll ==
    \A q \in {v \in AllQualifierNames : IsSome(Qualifier_from_str(v))} :
        \A idx \in 0..(Len(clusters) + 1) :
            LET r == set_qualifier(rounds, clusters_map, idx, q, TRUE)
            IN /\ IsSome(r.ret)
               /\ r.ret.val <= Len(Visible(State))
               /\ \A c \in Range(Visible(State)) :
                     r.cmap[c].new_qualifier = Qualifier_from_str(q).val
               /\ set_qualifier(rounds, r.cmap, idx, q, TRUE).ret = Some(0)

\* set_qualifier(all) has acted on a round of two clusters or more: they all
\* carry the same edited qualifier, and a cluster outside the round does not.
C9_Witness ==
    /\ Len(rounds) = 2
    /\ Len(Visible(State)) >= 2
    /\ \A c \in Range(Visible(State)) :
          /\ clusters_map[c].new_qualifier = "Benign"
          /\ clusters_map[c].qualifier # "Benign"
    /\ \E c \in DOMAIN clusters_map : clusters_map[c].new_qualifier # "Benign"

(***************************************************************************)
(* C10: set_qualifier returns the number of clusters whose new_qualifier   *)
(* differed from Q before the call; with all = false it touches only the   *)
(* cluster at the index; an index outside the round or an unrecognized     *)
(* qualifier name returns None and changes no qualifier.                   *)
(***************************************************************************)
C10_SetQualifierCount ==
    \A q \in AllQualifierNames : \A all \in BOOLEAN : \A idx \in 0..(Len(clusters) + 1) :
        LET r == set_qualifier(rounds, clusters_map, idx, q, all)
            nq == Qualifier_from_str(q)
            targets == IF all THEN Range(Visible(State)) ELSE {Visible(State)[idx + 1]}
        IN IF ~IsSome(nq) \/ (~all /\ idx >= Len(Visible(State)))
           THEN r.ret = None /\ r.cmap = clusters_map
           ELSE /\ r.ret = Some(Cardinality({c \in targets :
                                               clusters_map[c].new_qualifier # nq.val}))
                /\ \A c \in DOMAIN clusters_map :
                      r.cmap[c] = IF c \in targets
                                  THEN [clusters_map[c] EXCEPT !.new_qualifier = nq.val]
                                  ELSE clusters_map[c]

\* set_qualifier on one cluster has acted: in a round of two or more, a
\* cluster other than the first was edited and the others were not.
C10_Witness ==
    /\ Len(Visible(State)) >= 2
    /\ IsSome(ticks) /\ ticks.val > 0
    /\ clusters_map[Visible(State)[ticks.val + 1]].new_qualifier = "Benign"
    /\ clusters_map[Visible(State)[ticks.val + 1]].qualifier # "Benign"
    /\ \A c \in Range(Visible(State)) \ {Visible(State)[ticks.val + 1]} :
          clusters_map[c].new_qualifier = clusters_map[c].qualifier

(***************************************************************************)
(* Every command of the loop over the wide alphabet, and the states one    *)
(* iteration may lead to from the current state.                           *)
(***************************************************************************)
AllEventCommands ==
    {<<"NoFilter", None>>, <<"Regex", None>>, <<"Count", Some(<<"1">>)>>}
    \cup {<<"Regex", Some(x)>> : x \in AllRegexPatterns}

\* The states after one command other than SetQualifier.
OtherCommandSuccessors ==
    {run_ClusterID(State, s) : s \in ClusterIdLiterals \cup {<<"x">>}}
    \cup UNION {run_Event(State, c[1], c[2]) : c \in AllEventCommands}
    \cup {run_Exit(State)}
    \cup {run_Filter(State, c[1], c[2], c[3]) : c \in AllFilterCommands}
    \cup {run_Go(State, cmd) : cmd \in {"GoNext", "GoPrev"}}
    \cup {run_Jump(State, s) : s \in JumpLiterals \cup {<<"x">>}}
    \cup {run_SetReverse(State, x) : x \in BOOLEAN}

\* The states after one SetQualifier command.
SetQualifierSuccessors ==
    {run_SetQualifier(State, all, q) : all \in BOOLEAN, q \in AllQualifierNames}

\* The cluster files from which the current cluster list can have been built.
LoadedFrom ==
    {saved \in SavedClustersFiles : Clusters_new(saved, labels).clusters = clusters}

(***************************************************************************)
(* C11: each cluster's new_qualifier is the qualifier of the latest        *)
(* set_qualifier assignment that targeted it, or the seeded value if none  *)
(* did, and its qualifier field keeps the value seeded at load.            *)
(***************************************************************************)
\* The clusters a SetQualifier command with name q targets in the current state.
SetQualifierTargets(all, q) ==
    IF ~IsSome(ticks) \/ ~IsSome(Qualifier_from_str(q)) THEN {}
    ELSE IF all THEN Range(Visible(State))
    ELSE IF ticks.val < Len(Visible(State)) THEN {Visible(State)[ticks.val + 1]}
    ELSE {}

C11_NewQualifierIsLatestAssignment ==
    /\ LoadedFrom # {}
    /\ \A saved \in LoadedFrom : \A c \in DOMAIN clusters_map :
          clusters_map[c].qualifier = Clusters_new(saved, labels).clusters_map[c].qualifier
    /\ \A c \in DOMAIN clusters_map :
          clusters_map[c].new_qualifier
             \in {clusters_map[c].qualifier} \cup {Qualifier_from_str(q).val : q \in QualifierNames}
    /\ \A all \in BOOLEAN : \A q \in AllQualifierNames :
          LET s1 == run_SetQualifier(State, all, q)
          IN \A c \in DOMAIN clusters_map :
                /\ s1.clusters_map[c].qualifier = clusters_map[c].qualifier
                /\ s1.clusters_map[c].new_qualifier
                     = IF c \in SetQualifierTargets(all, q)
                       THEN Qualifier_from_str(q).val
                       ELSE clusters_map[c].new_qualifier
    /\ \A s1 \in OtherCommandSuccessors : \A c \in DOMAIN clusters_map :
          /\ s1.clusters_map[c].qualifier = clusters_map[c].qualifier
          /\ s1.clusters_map[c].new_qualifier = clusters_map[c].new_qualifier

\* One cluster has been assigned a qualifier other than its seed, another has
\* been assigned none, and a further assignment would replace the first.
C11_Witness ==
    /\ \E c \in DOMAIN clusters_map : clusters_map[c].new_qualifier # clusters_map[c].qualifier
    /\ \E c \in DOMAIN clusters_map : clusters_map[c].new_qualifier = clusters_map[c].qualifier
    /\ \E q \in AllQualifierNames : \E c \in SetQualifierTargets(FALSE, q) :
          /\ clusters_map[c].new_qualifier # clusters_map[c].qualifier
          /\ Qualifier_from_str(q).val # clusters_map[c].new_qualifier

(***************************************************************************)
(* C12: no operation after construction changes a cluster's event-id list, *)
(* size, score or signature; only new_qualifier and the two per-cluster    *)
(* filter stacks change.                                                   *)
(***************************************************************************)
\* The fields of a cluster record that are fixed at construction.
FixedFields(c) ==
    [id |-> c.id, size |-> c.size, score |-> c.score, signature |-> c.signature,
     event_ids |-> c.event_ids, qualifier |-> c.qualifier]

C12_MembersFixedAfterConstruction ==
    /\ \E saved \in LoadedFrom :
          /\ DOMAIN Clusters_new(saved, labels).clusters_map = DOMAIN clusters_map
          /\ \A c \in DOMAIN clusters_map :
                FixedFields(clusters_map[c])
                   = FixedFields(Clusters_new(saved, labels).clusters_map[c])
    /\ \A s1 \in OtherCommandSuccessors \cup SetQualifierSuccessors :
          /\ DOMAIN s1.clusters_map = DOMAIN clusters_map
          /\ s1.clusters = clusters
          /\ \A c \in DOMAIN clusters_map :
                FixedFields(s1.clusters_map[c]) = FixedFields(clusters_map[c])

\* Commands of every kind that writes the store have acted on one cluster: its
\* qualifier was edited and an event filter that drops a member is recorded.
C12_Witness ==
    /\ Len(rounds) = 2
    /\ \E c \in DOMAIN clusters_map :
          /\ clusters_map[c].new_qualifier # clusters_map[c].qualifier
          /\ clusters_map[c].filtered_events # <<>>
          /\ Len(Last(clusters_map[c].filtered_events)) < Len(clusters_map[c].event_ids)

(***************************************************************************)
(* C13: cluster-level regex filtering keeps a cluster of the current round *)
(* if and only if at least one event of its full member list has raw       *)
(* content matching the pattern.                                           *)
(***************************************************************************)
\* Event e is stored and its raw content matches the valid pattern p.
ContentMatches(e, p) ==
    /\ e \in DOMAIN events
    /\ Regex_is_match(p, events[e].content)

\* The clusters of the visible round with a member event matching p.
ClustersWithMatchingMember(p) ==
    SelectSeq(Visible(State), LAMBDA c :
        \E i \in 1..Len(clusters_map[c].event_ids) :
            ContentMatches(clusters_map[c].event_ids[i], p))

C13_RegexKeepsClustersWithMatchingMember ==
    \A p \in AllRegexPatterns :
        Regex_new(p).tag = "Ok" =>
            /\ Clusters_regex_match(clusters_map, Visible(State), p, events)
                 = [tag |-> "Ok", val |-> ClustersWithMatchingMember(p)]
            /\ p[1] # "!" =>
                 LET r == filter_by_regex(rounds, clusters_map, events, p)
                 IN IF ClustersWithMatchingMember(p) = <<>>
                    THEN r.ret = None /\ r.rounds = rounds
                    ELSE /\ r.ret = Some(Len(ClustersWithMatchingMember(p)))
                         /\ Visible(r) = ClustersWithMatchingMember(p)

\* An event filter has narrowed a visible cluster to events that do not match
\* a pattern which an event of its full member list does match.
C13_Witness ==
    \E p \in AllRegexPatterns : \E c \in Range(Visible(State)) :
        /\ Regex_new(p).tag = "Ok"
        /\ clusters_map[c].filtered_events # <<>>
        /\ \A i \in 1..Len(Last(clusters_map[c].filtered_events)) :
              ~ContentMatches(Last(clusters_map[c].filtered_events)[i], p)
        /\ Contains(ClustersWithMatchingMember(p), c)
        /\ Len(ClustersWithMatchingMember(p)) < Len(Visible(State))

(***************************************************************************)
(* The command loop restricted to cursor and event-filter commands, with   *)
(* event filters recorded on top of one another.                           *)
(***************************************************************************)
EventPatterns == {<<"a">>, <<"b">>, <<"!", "a">>, <<"!", "b">>, <<"!">>, <<"(">>}

DeepEventCommands ==
    {<<"NoFilter", None>>} \cup {<<"Regex", Some(x)>> : x \in EventPatterns}

CmdEventDeep(ft, opt) ==
    \E st \in run_Event(State, ft, opt) :
        /\ EventFilterCount(st.clusters_map, DOMAIN st.clusters_map) <= MaxRecordedFilters
        /\ Becomes(st)

EventNext ==
    \/ \E s \in JumpLiterals : CmdJump(s)
    \/ \E c \in DeepEventCommands : CmdEventDeep(c[1], c[2])

EventSpec == Init /\ [][EventNext]_vars

(***************************************************************************)
(* C14: regex_match_in_this_cluster evaluates against the innermost        *)
(* filtered event subset when the cluster's filter stack is non-empty and  *)
(* against the full member list otherwise; without '!' it returns the      *)
(* events of that subset whose content matches, with '!' exactly those     *)
(* that do not match the inner pattern.                                    *)
(***************************************************************************)
\* The most recently pushed subset of cluster c, or its full member list.
InnermostSubset(c) ==
    IF clusters_map[c].filtered_events = <<>> THEN clusters_map[c].event_ids
    ELSE clusters_map[c].filtered_events[Len(clusters_map[c].filtered_events)]

C14_EventRegexOnInnermostSubset ==
    \A c \in DOMAIN clusters_map : \A p \in AllRegexPatterns :
        LET negate == p[1] = "!"
            inner == IF negate THEN Tail(p) ELSE p
        IN (p # <<"!">> /\ Regex_new(inner).tag = "Ok") =>
              \A r \in regex_match_in_this_cluster(clusters_map, c, p, events) :
                  /\ r.tag = "Some"
                  /\ ~negate =>
                       r.val = SelectSeq(InnermostSubset(c), LAMBDA e : ContentMatches(e, inner))
                  /\ negate =>
                       /\ Range(r.val) = {e \in Range(InnermostSubset(c)) : ~ContentMatches(e, inner)}
                       /\ Len(r.val) = Cardinality(Range(r.val))

\* A cluster carries two event filters, each narrowing the one before.
C14_Witness ==
    \E c \in DOMAIN clusters_map :
        /\ Len(clusters_map[c].filtered_events) = 2
        /\ Len(clusters_map[c].filtered_events[2]) < Len(clusters_map[c].filtered_events[1])
        /\ Len(clusters_map[c].filtered_events[1]) < Len(clusters_map[c].event_ids)
        /\ clusters_map[c].filtered_events[2] # <<>>

(***************************************************************************)
(* C15: regex_match_in_this_cluster does not mutate state, and an event    *)
(* filter command whose pattern is an invalid regex, is a lone '!', or     *)
(* names a cluster that does not exist records nothing: every cluster's    *)
(* filter stack is left unchanged.                                         *)
(***************************************************************************)
\* A pattern the event filter rejects: a lone '!' or an invalid regex.
RejectedEventPattern(p) ==
    \/ p = <<"!">>
    \/ Regex_new(IF p[1] = "!" THEN Tail(p) ELSE p).tag = "Err"

C15_RejectedEventFilterRecordsNothing ==
    /\ \A p \in AllRegexPatterns :
          /\ \A tk \in {None} \cup {Some(i) : i \in 0..(Len(clusters) + 1)} :
                (RejectedEventPattern(p) \/ (IsSome(tk) /\ tk.val >= Len(Visible(State)))) =>
                    \A out \in filter_event(rounds, clusters_map, events, "Regex", Some(p), tk) :
                        out.cmap = clusters_map
          /\ \A r \in regex_match_in_this_cluster(clusters_map, 7, p, events) :
                r.tag \in {"None", "Err"}
          /\ RejectedEventPattern(p) =>
                /\ \A c \in DOMAIN clusters_map :
                      \A r \in regex_match_in_this_cluster(clusters_map, c, p, events) :
                          r.tag \in {"None", "Err"}
                /\ \A s1 \in run_Event(State, "Regex", Some(p)) :
                      s1.clusters_map = clusters_map /\ s1.rounds = rounds

\* The cursor is on a cluster that already carries an event filter when the
\* rejected pattern arrives.
C15_Witness ==
    /\ IsSome(ticks)
    /\ ticks.val < Len(Visible(State))
    /\ clusters_map[Visible(State)[ticks.val + 1]].filter # <<>>
    /\ 7 \notin DOMAIN clusters_map

(***************************************************************************)
(* C16: clear_filter(cluster_id) empties both that cluster's filtered      *)
(* subset stack and its pattern stack regardless of their depth, so the    *)
(* next event query uses the full member list; it changes no other cluster *)
(* and no round.                                                           *)
(***************************************************************************)
C16_ClearFilterEmptiesBothStacks ==
    /\ \A c \in DOMAIN clusters_map \cup {7} :
          LET after == clear_filter(clusters_map, c)
          IN /\ DOMAIN after = DOMAIN clusters_map
             /\ \A d \in DOMAIN clusters_map :
                   IF d = c
                   THEN /\ after[d].filtered_events = <<>>
                        /\ after[d].filter = <<>>
                        /\ after[d] = [clusters_map[d] EXCEPT !.filtered_events = <<>>,
                                                              !.filter = <<>>]
                        /\ \A p \in {<<"a">>, <<"b">>} :
                              regex_match_in_this_cluster(after, d, p, events)
                                = {[tag |-> "Some",
                                    val |-> SelectSeq(clusters_map[d].event_ids,
                                                      LAMBDA e : ContentMatches(e, p))]}
                   ELSE after[d] = clusters_map[d]
    /\ (IsSome(ticks) /\ ticks.val < Len(Visible(State))) =>
          \A s1 \in run_Event(State, "NoFilter", None) :
              /\ s1.rounds = rounds
              /\ s1.clusters_map = clear_filter(clusters_map, Visible(State)[ticks.val + 1])
              /\ s1.clusters_map[Visible(State)[ticks.val + 1]].filter = <<>>

\* The cursor is on a cluster carrying two event filters, and another cluster
\* carries one.
C16_Witness ==
    /\ IsSome(ticks)
    /\ ticks.val < Len(Visible(State))
    /\ Len(clusters_map[Visible(State)[ticks.val + 1]].filter) = 2
    /\ Len(clusters_map[Visible(State)[ticks.val + 1]].filtered_events) = 2
    /\ \E d \in DOMAIN clusters_map :
          d # Visible(State)[ticks.val + 1] /\ clusters_map[d].filter # <<>>

(***************************************************************************)
(* Construction on its own: the files are drawn, then TitleMatch::new      *)
(* builds the stores from them.                                            *)
(***************************************************************************)
\* The state before anything is constructed.
NotConstructed ==
    /\ clusters = <<>>
    /\ clusters_map = <<>>
    /\ events = <<>>
    /\ labels = <<>>
    /\ rounds = <<>>
    /\ prompt = <<>>
    /\ title = <<>>
    /\ ticks = None
    /\ limit = 0
    /\ reverse = FALSE

\* Cluster 2 is in no label file.
LoadClusterIdUniverse == {1, 2, 1000001}

LoadClustersFiles ==
    {[clusters |-> [i \in 1..Len(ids) |-> ClusterMember(ids[i])],
      outliers |-> SubSeq(AllOutliers, 1, k)]
       : ids \in UNION {[1..m -> LoadClusterIdUniverse] : m \in 0..MaxLoadClusters},
         k \in 0..(IF MaxLoadOutliers < Len(AllOutliers) THEN MaxLoadOutliers ELSE Len(AllOutliers))}

\* A label file in which cluster 1 is listed with an event that has no label.
LabelsFileSparse ==
    << [cluster_id |-> 1,
        events |-> << [msg |-> "e1", labels |-> <<>>] >>],
       [cluster_id |-> 1000001,
        events |-> << [msg |-> "e4", labels |-> << <<2, 1>> >>] >>] >>

LoadLabelsFiles == {LabelsFile, LabelsFileSparse}

LoadInit ==
    /\ NotConstructed
    /\ input \in [saved : LoadClustersFiles, labels : LoadLabelsFiles]
    /\ output = None

\* TitleMatch::new up to the event store.
Construct ==
    /\ ~IsSome(output)
    /\ LET ls == Labels_new(input.labels)
           cs == Clusters_new(input.saved, ls)
       IN output' = Some([labels |-> ls, clusters |-> cs.clusters,
                          clusters_map |-> cs.clusters_map,
                          events |-> Events_new(EventsFile, ColumnLen,
                                                Clusters_event_ids(cs.clusters_map))])
    /\ UNCHANGED <<clusters, clusters_map, events, labels, rounds, prompt, title, ticks,
                   limit, reverse, input>>

LoadNext == Construct

LoadSpec == LoadInit /\ [][LoadNext]_vars

(***************************************************************************)
(* C17: at load every ordinary cluster that carries a label in the label   *)
(* source is seeded with qualifier and new_qualifier Suspicious, and every *)
(* cluster carrying no label is seeded Unknown.                            *)
(***************************************************************************)
\* Cluster c has at least one label in the label file.
CarriesLabel(file, c) ==
    \E i \in 1..Len(file) :
        /\ file[i].cluster_id = c
        /\ \E j \in 1..Len(file[i].events) : file[i].events[j].labels # <<>>

\* The ids of the ordinary clusters of the cluster file drawn.
OrdinaryIds == {input.saved.clusters[i].cluster_id : i \in 1..Len(input.saved.clusters)}

C17_SeededFromLabels ==
    IsSome(output) =>
        \A c \in OrdinaryIds :
            /\ c \in DOMAIN output.val.clusters_map
            /\ output.val.clusters_map[c].qualifier
                 = (IF CarriesLabel(input.labels, c) THEN "Suspicious" ELSE "Unknown")
            /\ output.val.clusters_map[c].new_qualifier
                 = (IF CarriesLabel(input.labels, c) THEN "Suspicious" ELSE "Unknown")

\* Loaded: a labeled cluster next to one that the label file lists without
\* any label, or next to one that the label file does not list.
C17_Witness ==
    /\ IsSome(output)
    /\ \E c \in OrdinaryIds : CarriesLabel(input.labels, c)
    /\ \E c \in OrdinaryIds :
          /\ ~CarriesLabel(input.labels, c)
          /\ output.val.clusters_map[c].qualifier = "Unknown"
          /\ \/ \E i \in 1..Len(input.labels) : input.labels[i].cluster_id = c
             \/ c = 2

(***************************************************************************)
(* C18: a non-empty outlier list of K entries gives exactly one synthetic  *)
(* cluster with id 1000000 and size K, appended after all ordinary         *)
(* clusters in the base list, with qualifier Unknown whatever the label    *)
(* source says; an empty outlier list gives no synthetic cluster.          *)
(***************************************************************************)
C18_OutlierCluster ==
    IsSome(output) =>
        LET K == Len(input.saved.outliers)
            cl == output.val.clusters
            cm == output.val.clusters_map
        IN IF K > 0
           THEN /\ Len(cl) = Len(input.saved.clusters) + 1
                /\ cl[Len(cl)] = 1000000
                /\ \A i \in 1..(Len(cl) - 1) : cl[i] \in OrdinaryIds /\ cl[i] # 1000000
                /\ 1000000 \in DOMAIN cm
                /\ cm[1000000].id = 1000000
                /\ cm[1000000].size = K
                /\ cm[1000000].qualifier = "Unknown"
                /\ cm[1000000].new_qualifier = "Unknown"
           ELSE /\ 1000000 \notin DOMAIN cm
                /\ \A i \in 1..Len(cl) : cl[i] # 1000000
                /\ Len(cl) = Len(input.saved.clusters)

\* Loaded with two outlier records, one of them without a message id, ordinary
\* clusters before it, and a label file that labels cluster 1000000.
C18_Witness ==
    /\ IsSome(output)
    /\ Len(input.saved.outliers) = 2
    /\ Len(output.val.clusters_map[1000000].event_ids) = 1
    /\ Len(output.val.clusters) = 3
    /\ CarriesLabel(input.labels, 1000000)

(***************************************************************************)
(* Tokenizer (parser.rs).  A line is a sequence of characters; a character *)
(* is a one-character string, or "U+00E9" for the letter e with acute,     *)
(* which takes two bytes in UTF-8.  Indices are byte indices, as           *)
(* char_indices gives them.                                                *)
(***************************************************************************)
UpperLetters ==
    <<"A", "B", "C", "D", "E", "F", "G", "H", "I", "J", "K", "L", "M",
      "N", "O", "P", "Q", "R", "S", "T", "U", "V", "W", "X", "Y", "Z">>
LowerLetters ==
    <<"a", "b", "c", "d", "e", "f", "g", "h", "i", "j", "k", "l", "m",
      "n", "o", "p", "q", "r", "s", "t", "u", "v", "w", "x", "y", "z">>

\* char::len_utf8
len_utf8(c) == IF c = "U+00E9" THEN 2 ELSE 1

\* str::len: the length in bytes
RECURSIVE str_len(_)
str_len(s) == IF s = <<>> THEN 0 ELSE len_utf8(Head(s)) + str_len(Tail(s))

\* The byte index of the k-th character of s (of the end of s for k = Len(s) + 1).
ByteIdx(s, k) == str_len(SubSeq(s, 1, k - 1))

\* char::is_numeric, char::is_alphanumeric, char::is_ascii_hexdigit, char::is_whitespace
is_numeric(c) == IsDigit(c)
is_alphanumeric(c) ==
    IsDigit(c) \/ Contains(UpperLetters, c) \/ Contains(LowerLetters, c) \/ c = "U+00E9"
is_ascii_hexdigit(c) ==
    IsDigit(c) \/ c \in {"a", "b", "c", "d", "e", "f", "A", "B", "C", "D", "E", "F"}
is_whitespace(c) == c = " "

TOKEN_CHARS == {".", "_", "-", "@"}

\* The test of both scanning loops of extract_tokens.
IsTokenChar(c) == is_alphanumeric(c) \/ c \in TOKEN_CHARS

\* char::to_lowercase and str::to_lowercase
char_to_lowercase(c) ==
    IF Contains(UpperLetters, c)
    THEN LowerLetters[CHOOSE i \in 1..Len(UpperLetters) : UpperLetters[i] = c]
    ELSE c
to_lowercase(s) == [i \in 1..Len(s) |-> char_to_lowercase(s[i])]

\* str::trim
RECURSIVE trim_start(_)
trim_start(s) == IF s # <<>> /\ is_whitespace(Head(s)) THEN trim_start(Tail(s)) ELSE s
RECURSIVE trim_end(_)
trim_end(s) == IF s # <<>> /\ is_whitespace(s[Len(s)]) THEN trim_end(SubSeq(s, 1, Len(s) - 1)) ELSE s
trim(s) == trim_end(trim_start(s))

\* str::get(x..y): None unless x and y are character boundaries with x <= y.
str_get(s, x, y) ==
    LET Boundary(b) == \E k \in 1..(Len(s) + 1) : ByteIdx(s, k) = b
    IN IF Boundary(x) /\ Boundary(y) /\ x <= y
       THEN Some(SubSeq(s, CHOOSE k \in 1..(Len(s) + 1) : ByteIdx(s, k) = x,
                           (CHOOSE k \in 1..(Len(s) + 1) : ByteIdx(s, k) = y) - 1))
       ELSE None

check_numeric(x) == \A i \in 1..Len(x) : is_numeric(x[i])
check_hexdigit(x) == \A i \in 1..Len(x) : is_ascii_hexdigit(x[i])
check_dotdigit(x) == \A i \in 1..Len(x) : is_numeric(x[i]) \/ x[i] = "."

\* The first loop of extract_tokens: the (begin, end) byte pairs pushed when
\* the character iterator stands before the k-th character.
RECURSIVE TokenPairs(_, _)
TokenPairs(s, k) ==
    LET starts == {j \in k..Len(s) : IsTokenChar(s[j])}
    IN IF starts = {} THEN <<>>
       ELSE LET j == CHOOSE x \in starts : \A y \in starts : x <= y
                begin == ByteIdx(s, j)
                stops == {m \in (j + 1)..Len(s) : ~IsTokenChar(s[m])}
            IN IF stops = {}
               THEN LET end == IF j = Len(s) THEN 0 ELSE ByteIdx(s, Len(s))
                    IN IF begin < end THEN << <<begin, end + 1>> >> ELSE <<>>
               ELSE LET m == CHOOSE x \in stops : \A y \in stops : x <= y
                        end == ByteIdx(s, m)
                    IN (IF begin < end THEN << <<begin, end>> >> ELSE <<>>)
                         \o TokenPairs(s, m + 1)

\* The body of the second loop of extract_tokens for one pair: the token
\* pushed, if any.
TokenOfPair(s, x, y) ==
    LET sl == str_get(s, x, y)
    IN IF ~IsSome(sl) THEN <<>>
       ELSE IF check_numeric(sl.val) THEN <<>>
       ELSE IF str_len(to_lowercase(trim(sl.val))) < OPTION_TOKEN_MIN_LENGTH THEN <<>>
       ELSE IF check_hexdigit(sl.val) /\ y - x >= OPTION_HEXCODE_MIN_LENGTH THEN <<>>
       ELSE IF check_dotdigit(sl.val) THEN <<>>
       ELSE <<to_lowercase(trim(sl.val))>>

RECURSIVE TokensOfPairs(_, _)
TokensOfPairs(s, pairs) ==
    IF pairs = <<>> THEN <<>>
    ELSE TokenOfPair(s, Head(pairs)[1], Head(pairs)[2]) \o TokensOfPairs(s, Tail(pairs))

\* extract_tokens
extract_tokens(s) == TokensOfPairs(s, TokenPairs(s, 1))

(***************************************************************************)
(* The tokenizer on its own: a line is drawn, then tokenized.  A line is   *)
(* put together from at most MaxPieces pieces; one piece is a run of       *)
(* HexBlockLen hexadecimal letters.                                        *)
(***************************************************************************)
HexBlock == [i \in 1..HexBlockLen |-> "a"]

Pieces == {<<"a">>, <<"Z">>, <<"1">>, <<".">>, <<" ">>, <<"U+00E9">>, HexBlock}

RECURSIVE Flatten(_)
Flatten(ps) == IF ps = <<>> THEN <<>> ELSE Head(ps) \o Flatten(Tail(ps))

Lines == {Flatten(ps) : ps \in UNION {[1..n -> Pieces] : n \in 0..MaxPieces}}

TokenInit ==
    /\ NotConstructed
    /\ input \in Lines
    /\ output = None

Tokenize ==
    /\ ~IsSome(output)
    /\ output' = Some(extract_tokens(input))
    /\ UNCHANGED <<clusters, clusters_map, events, labels, rounds, prompt, title, ticks,
                   limit, reverse, input>>

TokenNext == Tokenize

TokenSpec == TokenInit /\ [][TokenNext]_vars

(***************************************************************************)
(* C19: every token returned by extract_tokens has length >= 3, is         *)
(* lower-case, is not composed only of digits, is not composed only of     *)
(* hexadecimal digits with length >= 20, and is not composed only of       *)
(* digits and '.'.                                                         *)
(***************************************************************************)
C19_TokensWellFormed ==
    IsSome(output) =>
        \A i \in 1..Len(output.val) :
            LET t == output.val[i]
            IN /\ Len(t) >= 3
               /\ \A j \in 1..Len(t) : ~Contains(UpperLetters, t[j])
               /\ ~(\A j \in 1..Len(t) : IsDigit(t[j]))
               /\ ~(Len(t) >= 20 /\ \A j \in 1..Len(t) : is_ascii_hexdigit(t[j]))
               /\ ~(\A j \in 1..Len(t) : IsDigit(t[j]) \/ t[j] = ".")

(***************************************************************************)
(* C20: for all strings a and b and every separator character s,           *)
(* extract_tokens(a + s + b) equals extract_tokens(a) followed by          *)
(* extract_tokens(b).                                                      *)
(***************************************************************************)
C20_TokensOfConcatenation ==
    IsSome(output) =>
        \A i \in 1..Len(input) :
            ~IsTokenChar(input[i]) =>
                output.val = extract_tokens(SubSeq(input, 1, i - 1))
                               \o extract_tokens(SubSeq(input, i + 1, Len(input)))

(***************************************************************************)
(* C21: extract_tokens returns, in left-to-right order and keeping         *)
(* duplicates, exactly the lower-cased maximal runs of token characters    *)
(* that pass the length, numeric, long-hex and digit-dot filters,          *)
(* including a run that reaches the end of the input.                      *)
(***************************************************************************)
\* Characters i..j of s are a maximal run of token characters.
IsMaximalRun(s, i, j) ==
    /\ i <= j
    /\ \A k \in i..j : IsTokenChar(s[k])
    /\ i = 1 \/ ~IsTokenChar(s[i - 1])
    /\ j = Len(s) \/ ~IsTokenChar(s[j + 1])

\* A run passes the filters of the second loop, with lengths in bytes.
RunSurvives(r) ==
    /\ ~check_numeric(r)
    /\ str_len(to_lowercase(r)) >= OPTION_TOKEN_MIN_LENGTH
    /\ ~(check_hexdigit(r) /\ str_len(r) >= OPTION_HEXCODE_MIN_LENGTH)
    /\ ~check_dotdigit(r)

\* The lower-cased surviving maximal runs of s that start at character k or later.
RECURSIVE SurvivingRuns(_, _)
SurvivingRuns(s, k) ==
    IF k > Len(s) THEN <<>>
    ELSE IF \E j \in k..Len(s) : IsMaximalRun(s, k, j)
    THEN LET j == CHOOSE x \in k..Len(s) : IsMaximalRun(s, k, x)
             r == SubSeq(s, k, j)
         IN (IF RunSurvives(r) THEN <<to_lowercase(r)>> ELSE <<>>) \o SurvivingRuns(s, j + 1)
    ELSE SurvivingRuns(s, k + 1)

C21_TokensAreSurvivingRuns ==
    IsSome(output) => output.val = SurvivingRuns(input, 1)

(***************************************************************************)
(* The packed sort key of a PatternId at bit level (labels.rs 53-57 and    *)
(* 101-105).  An unsigned integer is the sequence of its bits, the most    *)
(* significant first.                                                      *)
(***************************************************************************)
U32_BITS == 32
U64_BITS == 64

\* The u32 whose set bits are at the positions S, counted from the least
\* significant bit 0.
U32WithBits(S) == [i \in 1..U32_BITS |-> IF (U32_BITS - i) \in S THEN 1 ELSE 0]

\* u64::from(u32): zero extension.
u64_from(v) == [i \in 1..U64_BITS |-> IF i <= U64_BITS - U32_BITS THEN 0 ELSE v[i - (U64_BITS - U32_BITS)]]

\* A shift of a u64 by half the amount asked for: the key it gives lets the
\* catalog id and the rule id overlap.
u64_shl_HalfShift(x, n) ==
    [i \in 1..U64_BITS |-> IF i + (n \div 2) <= U64_BITS THEN x[i + (n \div 2)] ELSE 0]

\* The operator << on u64: the bits shifted out at the top are lost.
u64_shl(x, n) == [i \in 1..U64_BITS |-> IF i + n <= U64_BITS THEN x[i + n] ELSE 0]

\* The operator | on u64.
u64_bitor(x, y) == [i \in 1..U64_BITS |-> IF x[i] = 1 \/ y[i] = 1 THEN 1 ELSE 0]

\* Ord::cmp on unsigned integers of one width.
unsigned_cmp(x, y) ==
    IF x = y THEN "Equal"
    ELSE LET d == CHOOSE i \in 1..Len(x) : x[i] # y[i] /\ \A j \in 1..(i - 1) : x[j] = y[j]
         IN IF x[d] < y[d] THEN "Less" ELSE "Greater"

\* (u64::from(a.0) << 32) | u64::from(a.1)
PackedKey64(a) == u64_bitor(u64_shl(u64_from(a[1]), 32), u64_from(a[2]))

\* The comparator closure of both sort_by calls.
PackedCmp(a, b) == unsigned_cmp(PackedKey64(a), PackedKey64(b))

(***************************************************************************)
(* The comparator on its own: two PatternIds are drawn and compared.       *)
(***************************************************************************)
U32Samples ==
    {U32WithBits({}), U32WithBits({0}), U32WithBits({1}), U32WithBits({16}),
     U32WithBits({31}), U32WithBits(0..31)}

PatternIdSamples == U32Samples \X U32Samples

PackInit ==
    /\ NotConstructed
    /\ input \in PatternIdSamples \X PatternIdSamples
    /\ output = None

ComparePacked ==
    /\ ~IsSome(output)
    /\ output' = Some(PackedCmp(input[1], input[2]))
    /\ UNCHANGED <<clusters, clusters_map, events, labels, rounds, prompt, title, ticks,
                   limit, reverse, input>>

PackNext == ComparePacked

PackSpec == PackInit /\ [][PackNext]_vars

(***************************************************************************)
(* C22: for all pairs of PatternIds with 32-bit components, comparing the  *)
(* packed keys (c << 32) | r gives the same result as the lexicographic    *)
(* comparison of (catalog_id, rule_id).                                    *)
(***************************************************************************)
\* The lexicographic comparison of two PatternIds.
LexCmp(a, b) ==
    IF unsigned_cmp(a[1], b[1]) # "Equal" THEN unsigned_cmp(a[1], b[1])
    ELSE unsigned_cmp(a[2], b[2])

C22_PackedOrderIsLexicographic ==
    IsSome(output) => output.val = LexCmp(input[1], input[2])

\* Two keys were compared whose catalog ids and rule ids order in opposite
\* directions, the rule id of the smaller key having every bit set.
C22_Witness ==
    /\ IsSome(output)
    /\ output.val = "Less"
    /\ unsigned_cmp(input[1][1], input[2][1]) = "Less"
    /\ unsigned_cmp(input[1][2], input[2][2]) = "Greater"
    /\ input[1][2] = U32WithBits(0..31)
    /\ input[2][1] = U32WithBits({31})

(***************************************************************************)
(* The label store on its own: a label file is drawn, the store is built   *)
(* from it, and then it is queried.  The records of a label file are keyed *)
(* by cluster id; they come in any order.                                  *)
(***************************************************************************)
MaxLabelEntries == 2
MaxLabelEvents == 2

\* Labels::get_event_labels
RECURSIVE SortByPackedKey(_)
SortByPackedKey(S) ==
    IF S = {} THEN <<>>
    ELSE LET m == CHOOSE x \in S : \A y \in S \ {x} : U64Less(PackedKey(x[1]), PackedKey(y[1]))
         IN <<m>> \o SortByPackedKey(S \ {m})

\* get_event_labels returning the aggregation as it is, also when it is empty.
get_event_labels_EmptyList(ls, cluster_id) ==
    LET v == IF cluster_id \in DOMAIN ls.clusters_events_map
             THEN ls.clusters_events_map[cluster_id] ELSE <<>>
        occ == EventLabelPairs(cluster_id, v)
    IN Some(SortByPackedKey({<<occ[i][2], Cardinality({j \in 1..Len(occ) : occ[j][2] = occ[i][2]})>>
                                : i \in 1..Len(occ)}))

get_event_labels(ls, cluster_id) ==
    LET v == IF cluster_id \in DOMAIN ls.clusters_events_map
             THEN ls.clusters_events_map[cluster_id] ELSE <<>>
        occ == EventLabelPairs(cluster_id, v)
        patterns == {<<occ[i][2], Cardinality({j \in 1..Len(occ) : occ[j][2] = occ[i][2]})>>
                        : i \in 1..Len(occ)}
    IN IF patterns = {} THEN None ELSE Some(SortByPackedKey(patterns))

\* The label lists an event of a drawn label file may carry.
LabelListChoices ==
    {<<>>, << <<1, 1>> >>, << <<2, 1>>, <<1, 2>> >>, << <<1, 1>>, <<1, 1>> >>}

LabelEventLists ==
    UNION {[1..n -> [msg : {"m"}, labels : LabelListChoices]] : n \in 0..MaxLabelEvents}

LabelClusterIds == {1, 2, 3}

GenLabelsFiles ==
    {f \in UNION {[1..n -> [cluster_id : LabelClusterIds, events : LabelEventLists]]
                     : n \in 0..MaxLabelEntries} :
        \A i, j \in 1..Len(f) : i # j => f[i].cluster_id # f[j].cluster_id}

\* The catalog ids and rule ids a query may name; 0 stands for any.
QueryIds == {0, 1, 2}

LabelInit ==
    /\ clusters = <<>>
    /\ clusters_map = <<>>
    /\ events = <<>>
    /\ labels = Labels_new(<<>>)
    /\ rounds = <<>>
    /\ prompt = <<>>
    /\ title = <<>>
    /\ ticks = None
    /\ limit = 0
    /\ reverse = FALSE
    /\ input \in GenLabelsFiles
    /\ output = None

\* Labels::new
BuildLabels ==
    /\ ~IsSome(output)
    /\ labels' = Labels_new(input)
    /\ output' = Some([op |-> "new", args |-> <<>>, ret |-> <<>>])
    /\ UNCHANGED <<clusters, clusters_map, events, rounds, prompt, title, ticks,
                   limit, reverse, input>>

\* Labels::find_clusters on the built store
QueryFindClusters ==
    /\ IsSome(output)
    /\ \E tidb_id \in QueryIds, rule_id \in QueryIds :
          output' = Some([op |-> "find_clusters", args |-> <<tidb_id, rule_id>>,
                          ret |-> find_clusters(labels, tidb_id, rule_id)])
    /\ UNCHANGED <<clusters, clusters_map, events, labels, rounds, prompt, title, ticks,
                   limit, reverse, input>>

\* Labels::get_event_labels on the built store
QueryEventLabels ==
    /\ IsSome(output)
    /\ \E cluster_id \in LabelClusterIds :
          output' = Some([op |-> "get_event_labels", args |-> <<cluster_id>>,
                          ret |-> get_event_labels(labels, cluster_id)])
    /\ UNCHANGED <<clusters, clusters_map, events, labels, rounds, prompt, title, ticks,
                   limit, reverse, input>>

LabelNext == BuildLabels \/ QueryFindClusters \/ QueryEventLabels

LabelSpec == LabelInit /\ [][LabelNext]_vars

(***************************************************************************)
(* C23: find_clusters(catalog_id, rule_id) returns a strictly ascending    *)
(* list containing exactly the clusters that have a label whose catalog id *)
(* equals catalog_id (or catalog_id = 0) and whose rule id equals rule_id  *)
(* (or rule_id = 0); with both 0 it returns exactly the clusters for which *)
(* is_labeled is true.                                                     *)
(***************************************************************************)
\* The label file gives cluster c a label matching (tidb_id, rule_id), 0 standing for any.
HasMatchingLabel(file, c, tidb_id, rule_id) ==
    \E i \in 1..Len(file) : \E j \in 1..Len(file[i].events) :
        \E k \in 1..Len(file[i].events[j].labels) :
            /\ file[i].cluster_id = c
            /\ tidb_id \in {0, file[i].events[j].labels[k][1]}
            /\ rule_id \in {0, file[i].events[j].labels[k][2]}

C23_FindClustersExact ==
    (IsSome(output) /\ output.val.op = "find_clusters") =>
        LET ret == output.val.ret
            tidb_id == output.val.args[1]
            rule_id == output.val.args[2]
        IN /\ \A i \in 1..(Len(ret) - 1) : ret[i] < ret[i + 1]
           /\ Range(ret) = {c \in LabelClusterIds : HasMatchingLabel(input, c, tidb_id, rule_id)}
           /\ (tidb_id = 0 /\ rule_id = 0) =>
                 Range(ret) = {c \in LabelClusterIds : is_labeled(labels, c)}

\* A query with a wildcard rule id has returned two clusters that the label
\* file lists in descending order, one of which has two matching labels.
C23_Witness ==
    /\ IsSome(output) /\ output.val.op = "find_clusters"
    /\ output.val.args = <<1, 0>>
    /\ Len(output.val.ret) = 2
    /\ \E c \in Range(output.val.ret) :
          HasMatchingLabel(input, c, 1, 1) /\ HasMatchingLabel(input, c, 1, 2)
    /\ Len(input) = 2
    /\ input[1].cluster_id > input[2].cluster_id

(***************************************************************************)
(* C24: after the label store is built, every cluster's pattern list is    *)
(* sorted by packed key and contains no duplicates, and every pattern's    *)
(* cluster list is sorted and contains no duplicates, for any label input. *)
(***************************************************************************)
C24_IndicesSortedAndDeduplicated ==
    IsSome(output) =>
        /\ \A c \in DOMAIN labels.clusters_labels_map :
              LET ps == labels.clusters_labels_map[c]
              IN \A i \in 1..(Len(ps) - 1) : U64Less(PackedKey(ps[i]), PackedKey(ps[i + 1]))
        /\ \A p \in DOMAIN labels.labels_clusters_map :
              LET cs == labels.labels_clusters_map[p]
              IN \A i \in 1..(Len(cs) - 1) : cs[i] < cs[i + 1]

(***************************************************************************)
(* C25: event_labels(cluster_id) returns none when the cluster has no      *)
(* per-event label entries (never an empty list); otherwise one entry per  *)
(* distinct pattern, ordered by packed key, whose count is the number of   *)
(* (event, label) occurrences of that pattern in the cluster, so that the  *)
(* counts sum to the cluster's total number of per-event label entries.    *)
(***************************************************************************)
\* The (record, event, label) positions of the label file at which cluster c
\* is given a label.
LabelOccurrences(file, c) ==
    UNION {UNION {{<<i, j, k>> : k \in 1..Len(file[i].events[j].labels)}
                     : j \in 1..Len(file[i].events)}
              : i \in {x \in 1..Len(file) : file[x].cluster_id = c}}

RECURSIVE SumCounts(_)
SumCounts(entries) ==
    IF entries = <<>> THEN 0 ELSE Head(entries)[2] + SumCounts(Tail(entries))

Events_tokens(evs, message_id) ==
    IF message_id \in DOMAIN evs THEN Some(evs[message_id].tokens) ELSE None

\* The cluster ids pushed for token t: one for every occurrence of t in the
\* token list of every stored member event of every cluster of C.
RECURSIVE PushedFor(_, _, _, _)
PushedFor(cm, evs, t, C) ==
    IF C = {} THEN <<>>
    ELSE LET c == CHOOSE x \in C : TRUE
             OfEvent(m) == IF IsSome(Events_tokens(evs, m))
                           THEN SelectSeq(Events_tokens(evs, m).val, LAMBDA x : x = t)
                           ELSE <<>>
             OfCluster[k \in 0..Len(cm[c].event_ids)] ==
                 IF k = 0 THEN <<>>
                 ELSE OfCluster[k - 1] \o [n \in 1..Len(OfEvent(cm[c].event_ids[k])) |-> cm[c].id]
         IN OfCluster[Len(cm[c].event_ids)] \o PushedFor(cm, evs, t, C \ {c})

\* The tokens of the stored member events of the clusters.
MemberTokens(cm, evs) ==
    UNION {UNION {IF IsSome(Events_tokens(evs, m)) THEN Range(Events_tokens(evs, m).val) ELSE {}
                     : m \in Range(cm[c].event_ids)}
              : c \in DOMAIN cm}

\* init_event_tokens without the dedup of the cluster lists.
init_event_tokens_NoDedup(cm, evs) ==
    [t \in MemberTokens(cm, evs) |-> SortInts(PushedFor(cm, evs, t, DOMAIN cm))]

\* Clusters::init_event_tokens: the new value of tokens_clusters_map.
init_event_tokens(cm, evs) ==
    [t \in MemberTokens(cm, evs) |-> Dedup(SortInts(PushedFor(cm, evs, t, DOMAIN cm)))]

(***************************************************************************)
(* The token index on its own: a cluster store is loaded, and the index is *)
(* built from an event store and then rebuilt from another one.  input is  *)
(* the index that a build replaces.                                        *)
(***************************************************************************)
TokenA == <<"a", "a", "a">>
TokenB == <<"b", "b", "b">>

\* The token lists a stored event may have; Absent marks an event that is
\* not in the event store.
Absent == << <<"absent">> >>
TokenListChoices == {Absent, <<TokenA>>, <<TokenA, TokenB>>, <<TokenB, TokenB>>}

IndexEventStores ==
    {[m \in {x \in DOMAIN f : f[x] # Absent} |-> [content |-> <<>>, tokens |-> f[m]]]
        : f \in {g \in [{"e1", "e2", "e4", "o1"} -> TokenListChoices] :
                    g["e2"] \in {Absent, <<TokenA>>}}}

IndexInit ==
    /\ \E saved \in SavedClustersFiles :
          LET cs == Clusters_new(saved, Labels_new(LabelsFile))
          IN clusters = cs.clusters /\ clusters_map = cs.clusters_map
    /\ events = <<>>
    /\ labels = Labels_new(LabelsFile)
    /\ rounds = <<>>
    /\ prompt = <<>>
    /\ title = <<>>
    /\ ticks = None
    /\ limit = 0
    /\ reverse = FALSE
    /\ input = None
    /\ output = None

\* Clusters::init_event_tokens, called with an event store
InitEventTokens ==
    /\ ~IsSome(input)
    /\ \E evs \in IndexEventStores :
          /\ events' = evs
          /\ output' = Some(init_event_tokens(clusters_map, evs))
    /\ input' = output
    /\ UNCHANGED <<clusters, clusters_map, labels, rounds, prompt, title, ticks, limit, reverse>>

IndexNext == InitEventTokens

IndexSpec == IndexInit /\ [][IndexNext]_vars

(***************************************************************************)
(* C26: after init_event_tokens, for every token the indexed cluster list  *)
(* is sorted ascending without duplicates, and a cluster id is in a        *)
(* token's list if and only if at least one of that cluster's member       *)
(* events present in the event store has that token; the previous index is *)
(* replaced in full.                                                       *)
(***************************************************************************)
\* Cluster c has a member event in the event store with token t.
ClusterHasToken(c, t) ==
    \E k \in 1..Len(clusters_map[c].event_ids) :
        /\ clusters_map[c].event_ids[k] \in DOMAIN events
        /\ \E n \in 1..Len(events[clusters_map[c].event_ids[k]].tokens) :
              events[clusters_map[c].event_ids[k]].tokens[n] = t

C26_TokenIndexExact ==
    IsSome(output) =>
        /\ \A t \in DOMAIN output.val :
              \A i \in 1..(Len(output.val[t]) - 1) : output.val[t][i] < output.val[t][i + 1]
        /\ \A t \in {TokenA, TokenB} : \A c \in DOMAIN clusters_map :
              (t \in DOMAIN output.val /\ c \in Range(output.val[t])) <=> ClusterHasToken(c, t)
        /\ DOMAIN output.val \subseteq {TokenA, TokenB}

\* The index was rebuilt: the index it replaced listed two clusters under a
\* token that the new index does not have, and the new index lists under the
\* other token a cluster in which two events, or one event twice, have it.
C26_Witness ==
    /\ IsSome(output) /\ IsSome(input)
    /\ TokenA \in DOMAIN input.val /\ Len(input.val[TokenA]) >= 2
    /\ TokenA \notin DOMAIN output.val
    /\ TokenB \in DOMAIN output.val
    /\ Len(init_event_tokens_NoDedup(clusters_map, events)[TokenB]) > Len(output.val[TokenB])

(***************************************************************************)
(* C27: next moves the cursor forward by one and prev back by one (prev at *)
(* index 0 stays at 0), with the two directions swapped when reverse mode  *)
(* is on; a jump or move past the end is clamped to the last valid index   *)
(* of the current round; cursor movement never changes the round stack or  *)
(* any cluster.                                                            *)
(***************************************************************************)
\* The option strings a Jump command is tried with.
AllJumpLiterals ==
    JumpLiterals \cup {<<"1">>, <<"x">>, <<"+", "2">>, <<"-", "1">>, <<>>}

\* Index i brought into the visible round.
ClampedToRound(i) ==
    IF i >= Len(Visible(State)) THEN Len(Visible(State)) - 1 ELSE i

C27_CursorMovement ==
    /\ limit = Len(Visible(State))
    /\ IsSome(ticks) => ticks.val < Len(Visible(State))
    /\ \A cmd \in {"GoNext", "GoPrev"} :
          LET s1 == run_Go(State, cmd)
              forward == (cmd = "GoNext") # reverse
          IN /\ s1.rounds = rounds /\ s1.clusters_map = clusters_map /\ s1.clusters = clusters
             /\ IsSome(ticks) =>
                   s1.ticks = Some(IF forward THEN ClampedToRound(ticks.val + 1)
                                   ELSE IF ticks.val = 0 THEN 0
                                   ELSE ticks.val - 1)
             /\ ~IsSome(ticks) => s1.ticks = Some(0)
    /\ \A s \in AllJumpLiterals :
          LET s1 == run_Jump(State, s)
          IN /\ s1.rounds = rounds /\ s1.clusters_map = clusters_map /\ s1.clusters = clusters
             /\ (IsIntegerLiteral(s) /\ IntegerValue(s) > 0) =>
                   s1.ticks = Some(ClampedToRound(IntegerValue(s) - 1))
             /\ IsSome(s1.ticks) /\ s1.ticks.val < Len(Visible(State))

\* In reverse mode the cursor stands on the last cluster of a round of two or
\* more: prev is clamped there and next moves back by one.
C27_Witness ==
    /\ reverse
    /\ Len(Visible(State)) >= 2
    /\ ticks = Some(Len(Visible(State)) - 1)
    /\ run_Go(State, "GoPrev").ticks = ticks
    /\ run_Go(State, "GoNext").ticks = Some(ticks.val - 1)
    /\ run_Jump(State, <<"9">>).ticks = ticks

(***************************************************************************)
(* The rule catalog (tidb.rs) and its use by the engine (matcher.rs        *)
(* 168-176).  A pack is a record with the fields id, name and patterns; a  *)
(* rule has the fields rule_id and name.  input is the list of the loaded  *)
(* packs, in load order.                                                   *)
(***************************************************************************)
MaxPacks == 2

\* ComplexRules::get_label_name
ComplexRules_get_label_name(tidb, tidb_id, rule_id) ==
    IF tidb_id = tidb.id
    THEN IF \E k \in 1..Len(tidb.patterns) : tidb.patterns[k].rule_id = rule_id
         THEN LET k == CHOOSE x \in 1..Len(tidb.patterns) :
                          /\ tidb.patterns[x].rule_id = rule_id
                          /\ \A y \in 1..(x - 1) : tidb.patterns[y].rule_id # rule_id
              IN Some(tidb.patterns[k].name)
         ELSE Some(tidb.name)
    ELSE None

\* TitleMatch::get_label_name: the answer of the first pack that gives one.
RECURSIVE get_label_name(_, _, _)
get_label_name(tidbs, tidb_id, rule_id) ==
    IF tidbs = <<>> THEN None
    ELSE LET r == ComplexRules_get_label_name(Head(tidbs), tidb_id, rule_id)
         IN IF IsSome(r) THEN r ELSE get_label_name(Tail(tidbs), tidb_id, rule_id)

\* The rules and the packs drawn.
RuleLists ==
    {<<>>, <<[rule_id |-> 1, name |-> "rule1"]>>, <<[rule_id |-> 2, name |-> "rule2"]>>,
     <<[rule_id |-> 2, name |-> "rule2"], [rule_id |-> 1, name |-> "rule1"]>>}

Packs == [id : {1, 2}, name : {"packA", "packB"}, patterns : RuleLists]

CatalogInit ==
    /\ NotConstructed
    /\ input \in UNION {[1..n -> Packs] : n \in 0..MaxPacks}
    /\ output = None

\* TitleMatch::get_label_name, called with a catalog id and a rule id
ResolveLabelName ==
    /\ \E tidb_id \in 1..3, rule_id \in 1..3 :
          output' = Some([op |-> "get_label_name", args |-> <<tidb_id, rule_id>>,
                          ret |-> get_label_name(input, tidb_id, rule_id)])
    /\ UNCHANGED <<clusters, clusters_map, events, labels, rounds, prompt, title, ticks,
                   limit, reverse, input>>

CatalogNext == ResolveLabelName

CatalogSpec == CatalogInit /\ [][CatalogNext]_vars

(***************************************************************************)
(* C28: label-name resolution over the loaded rule packs returns the       *)
(* rule's name whenever some loaded pack with that catalog id contains a   *)
(* rule with that rule id, falls back to the catalog's own name only when  *)
(* a pack with that catalog id exists but none contains the rule id, and   *)
(* returns none when no loaded pack has that catalog id.                   *)
(***************************************************************************)
C28_LabelNameResolution ==
    IsSome(output) =>
        LET tidb_id == output.val.args[1]
            rule_id == output.val.args[2]
            withId == {i \in 1..Len(input) : input[i].id = tidb_id}
            ruleNames == UNION {{input[i].patterns[k].name :
                                    k \in {x \in 1..Len(input[i].patterns) :
                                              input[i].patterns[x].rule_id = rule_id}}
                                   : i \in withId}
        IN IF ruleNames # {} THEN output.val.ret \in {Some(n) : n \in ruleNames}
           ELSE IF withId # {} THEN output.val.ret \in {Some(input[i].name) : i \in withId}
           ELSE output.val.ret = None

(***************************************************************************)
(* C29: an unparsable literal is never an error: a Count or Score filter   *)
(* with an unparsable literal gives the same result as the same filter     *)
(* with literal 0, and a qualifier filter with an unparsable literal       *)
(* (anything other than the exact lower-case names) gives the same result  *)
(* as the filter for Unknown.                                              *)
(***************************************************************************)
\* The literals that do not parse as a count, as a score, as a qualifier.
UnparsableCounts == {v \in AllCountLiterals \cup {<<>>} : ~IsSome(ParseUsize(v))}
UnparsableScores == {v \in AllScoreLiterals \cup {<<>>, <<"+">>} : ~IsSome(ParseF32(v))}
UnparsableQualifiers == {v \in AllQualifierNames \cup {<<>>} : ~IsSome(Qualifier_from_str(v))}

C29_UnparsableLiteralIsZero ==
    /\ \A op \in FilterOps : \A v \in UnparsableCounts :
          /\ filter_clusters(clusters_map, Visible(State), "Count", op, v)
               = filter_clusters(clusters_map, Visible(State), "Count", op, <<"0">>)
          /\ filter_clusters(clusters_map, Visible(State), "Count", op, v)
               = SelectSeq(Visible(State), LAMBDA c : OpHolds(clusters_map[c].size, op, 0))
          /\ filter_by(rounds, clusters_map, "Count", op, v).ret
               = filter_by(rounds, clusters_map, "Count", op, <<"0">>).ret
    /\ \A op \in FilterOps : \A v \in UnparsableScores :
          /\ filter_clusters(clusters_map, Visible(State), "Score", op, v)
               = filter_clusters(clusters_map, Visible(State), "Score", op, <<"0">>)
          /\ op \in {"L", "G"} =>
                filter_clusters(clusters_map, Visible(State), "Score", op, v)
                  = SelectSeq(Visible(State), LAMBDA c : OpHolds(clusters_map[c].score, op, 0))
          /\ filter_by(rounds, clusters_map, "Score", op, v).ret
               = filter_by(rounds, clusters_map, "Score", op, <<"0">>).ret
    /\ \A v \in UnparsableQualifiers :
          /\ filter_clusters(clusters_map, Visible(State), "Qualifier", "EQ", v)
               = filter_clusters(clusters_map, Visible(State), "Qualifier", "EQ", STR_unknown)
          /\ filter_clusters(clusters_map, Visible(State), "Qualifier", "EQ", v)
               = SelectSeq(Visible(State), LAMBDA c : clusters_map[c].new_qualifier = "Unknown")
          /\ filter_by(rounds, clusters_map, "Qualifier", "EQ", v).ret
               = filter_by(rounds, clusters_map, "Qualifier", "EQ", STR_unknown).ret

\* The visible round has a cluster of size 0 and one of a larger size, one of
\* score 0 and one of a higher score, one that is Unknown and one that is not:
\* the filters with the literal x keep a part of the round.
C29_Witness ==
    /\ Len(Visible(State)) >= 2
    /\ Len(filter_clusters(clusters_map, Visible(State), "Count", "G", <<"x">>))
         \in 1..(Len(Visible(State)) - 1)
    /\ Len(filter_clusters(clusters_map, Visible(State), "Score", "G", <<"x">>))
         \in 1..(Len(Visible(State)) - 1)
    /\ Len(filter_clusters(clusters_map, Visible(State), "Qualifier", "EQ", <<"x">>))
         \in 1..(Len(Visible(State)) - 1)
    /\ \E c \in Range(Visible(State)) : clusters_map[c].new_qualifier # clusters_map[c].qualifier

(***************************************************************************)
(* The event store from the lines of the event file (events.rs 31-92,      *)
(* config.rs 76-110).  A line is a sequence of characters.                 *)
(***************************************************************************)
MaxLines == 2
MaxFields == 3

\* str::split(delimiter)
RECURSIVE str_split(_, _)
str_split(s, d) ==
    IF ~Contains(s, d) THEN <<s>>
    ELSE LET i == CHOOSE k \in 1..Len(s) : s[k] = d /\ \A j \in 1..(k - 1) : s[j] # d
         IN <<SubSeq(s, 1, i - 1)>> \o str_split(SubSeq(s, i + 1, Len(s)), d)

\* Config::column_len, Config::key_field and Config::features
Config_column_len(cfg) == Len(cfg.format)
Config_key_field(cfg) ==
    IF \E i \in 1..Len(cfg.format) : cfg.format[i].alias = cfg.key_column
    THEN Some((CHOOSE i \in 1..Len(cfg.format) :
                  /\ cfg.format[i].alias = cfg.key_column
                  /\ \A j \in 1..(i - 1) : cfg.format[j].alias # cfg.key_column) - 1)
    ELSE None
Config_features(cfg) ==
    LET idx == SelectSeq([i \in 1..Len(cfg.format) |-> i], LAMBDA i : cfg.format[i].weight > 0)
    IN [k \in 1..Len(idx) |-> idx[k] - 1]

\* The tokens of the feature fields of a split line, in the order of the features.
RECURSIVE FeatureTokens(_, _)
FeatureTokens(log, features) ==
    IF features = <<>> THEN <<>>
    ELSE (IF Head(features) < Len(log) THEN extract_tokens(log[Head(features) + 1]) ELSE <<>>)
           \o FeatureTokens(log, Tail(features))

\* One line of the event file, split: its column count, key field, text and tokens.
LineRecord(line, cfg) ==
    LET log == str_split(line, cfg.delimiter)
        key_idx == Config_key_field(cfg).val
    IN [ncols |-> Len(log),
        key |-> IF key_idx < Len(log) THEN log[key_idx + 1] ELSE <<>>,
        content |-> line,
        tokens |-> FeatureTokens(log, Config_features(cfg))]

\* Events::new on the lines of the event file.
Events_new_cfg(cfg, lines, event_ids) ==
    Events_new([i \in 1..Len(lines) |-> LineRecord(lines[i], cfg)],
               Config_column_len(cfg), event_ids)

(***************************************************************************)
(* The event store on its own: the lines of an event file and the set of   *)
(* wanted message ids are drawn, and the store is loaded.  A line is drawn *)
(* as the list of its fields, which the delimiter joins.                   *)
(***************************************************************************)
EventConfig ==
    [format |-> <<[alias |-> "msg", weight |-> 1], [alias |-> "uid", weight |-> 0],
                  [alias |-> "note", weight |-> 1]>>,
     key_column |-> "uid",
     delimiter |-> ","]

KeyOne == <<"k", "1">>
KeyTwo == <<"k", "2">>

FieldChoices ==
    {KeyOne, KeyTwo, <<"a", "b", "c">>, <<"X", "y", "z", " ", "a", "b", "c">>}

FieldLists == UNION {[1..n -> FieldChoices] : n \in 2..MaxFields}

\* The fields joined by the delimiter d.
RECURSIVE JoinFields(_, _)
JoinFields(fields, d) ==
    IF Len(fields) = 1 THEN Head(fields)
    ELSE Head(fields) \o <<d>> \o JoinFields(Tail(fields), d)

EventLoadInit ==
    /\ NotConstructed
    /\ input \in [lines : UNION {[1..n -> FieldLists] : n \in 0..MaxLines},
                  restrict_to : {{KeyOne}, {KeyOne, KeyTwo}}]
    /\ output = None

\* Events::new
LoadEvents ==
    /\ ~IsSome(output)
    /\ output' = Some(Events_new_cfg(EventConfig,
                                     [i \in 1..Len(input.lines) |->
                                         JoinFields(input.lines[i], EventConfig.delimiter)],
                                     input.restrict_to))
    /\ UNCHANGED <<clusters, clusters_map, events, labels, rounds, prompt, title, ticks,
                   limit, reverse, input>>

EventLoadNext == LoadEvents

EventLoadSpec == EventLoadInit /\ [][EventLoadNext]_vars

(***************************************************************************)
(* C30: the event store built by load contains exactly one record per key  *)
(* for the input lines whose column count equals the declared schema width *)
(* and whose key field is in restrict_to; every other line is skipped      *)
(* without failing the load, and the stored token list of a record is the  *)
(* concatenation, in feature-field order, of extract_tokens of each        *)
(* feature field.                                                          *)
(***************************************************************************)
\* Line i of the drawn file has the declared width and a wanted key, which
\* is its second field; its first and third fields are the feature fields.
LineIsKept(i) ==
    /\ Len(input.lines[i]) = 3
    /\ input.lines[i][2] \in input.restrict_to

C30_EventStoreFromKeptLines ==
    IsSome(output) =>
        /\ DOMAIN output.val = {input.lines[i][2] : i \in {j \in 1..Len(input.lines) : LineIsKept(j)}}
        /\ \A k \in DOMAIN output.val :
              \E i \in 1..Len(input.lines) :
                  /\ LineIsKept(i) /\ input.lines[i][2] = k
                  /\ \A j \in (i + 1)..Len(input.lines) :
                        ~(LineIsKept(j) /\ input.lines[j][2] = k)
                  /\ output.val[k].content = JoinFields(input.lines[i], ",")
                  /\ output.val[k].tokens
                       = extract_tokens(input.lines[i][1]) \o extract_tokens(input.lines[i][3])

\* Loaded from two lines: one is kept, and its record has the tokens of both
\* feature fields; the other is too short and has a wanted key as its
\* second field.
C30_Witness ==
    /\ IsSome(output)
    /\ Cardinality(DOMAIN output.val) = 1
    /\ \E k \in DOMAIN output.val : Len(output.val[k].tokens) = 3
    /\ Len(input.lines) = 2
    /\ \E i \in 1..2 : Len(input.lines[i]) = 2 /\ input.lines[i][2] \in input.restrict_to

(***************************************************************************)
(* C31: the qualifier filter selects on the latest assigned qualifier, not *)
(* the one seeded at load: after set_qualifier changes a cluster to Q, a   *)
(* filter(Qualifier, Q) over a round containing it includes that cluster,  *)
(* and a filter for its former qualifier excludes it.                      *)
(***************************************************************************)
\* The names a Qualifier filter reads as qualifier q; a name that does not
\* parse is read as the default.
NamesReadAs(q) ==
    {n \in AllQualifierNames : Qualifier_unwrap_or_default(Qualifier_from_str(n)) = q}

C31_QualifierFilterUsesLatest ==
    /\ \A n \in AllQualifierNames :
          filter_clusters(clusters_map, Visible(State), "Qualifier", "EQ", n)
            = SelectSeq(Visible(State), LAMBDA c :
                  clusters_map[c].new_qualifier
                    = Qualifier_unwrap_or_default(Qualifier_from_str(n)))
    /\ \A all \in BOOLEAN : \A q \in AllQualifierNames :
          LET s1 == run_SetQualifier(State, all, q)
          IN \A c \in SetQualifierTargets(all, q) :
                clusters_map[c].new_qualifier # Qualifier_from_str(q).val =>
                   /\ \A n \in NamesReadAs(Qualifier_from_str(q).val) :
                         LET s2 == run_Filter(s1, "Qualifier", "EQ", Some(n))
                         IN /\ Len(s2.rounds) = Len(rounds) + 1
                            /\ Contains(Visible(s2), c)
                   /\ \A n \in NamesReadAs(clusters_map[c].new_qualifier) :
                         LET s2 == run_Filter(s1, "Qualifier", "EQ", Some(n))
                         IN Len(s2.rounds) = Len(rounds) + 1 => ~Contains(Visible(s2), c)

\* A Qualifier filter has pushed a round that holds a cluster whose qualifier
\* was edited to the one filtered for, and a filter for the seeded qualifier
\* of that cluster would select another cluster of the round beneath and not it.
C31_Witness ==
    /\ Len(rounds) = 2
    /\ Last(rounds).filtertype = "Qualifier"
    /\ \E c \in Range(Visible(State)) :
          /\ clusters_map[c].new_qualifier # clusters_map[c].qualifier
          /\ Qualifier_from_str(Last(rounds).pattern) = Some(clusters_map[c].new_qualifier)
          /\ \E n \in NamesReadAs(clusters_map[c].qualifier) :
                LET found == filter_clusters(clusters_map, rounds[1].clusters, "Qualifier", "EQ", n)
                IN found # <<>> /\ ~Contains(found, c)

(***************************************************************************)
(* C32: in every state of the command loop the saved-prompt stack has      *)
(* exactly one entry fewer than the round stack, and the displayed count   *)
(* (limit) equals the length of the top round's id list; an exit restores  *)
(* the title, cursor and count that were saved when the popped round was   *)
(* pushed.                                                                 *)
(***************************************************************************)
\* What the loop shows at the prompt: title, cursor and count.
Shown(st) == [title |-> st.title, ticks |-> st.ticks, limit |-> st.limit]

C32_PromptStackParallelsRounds ==
    /\ Len(prompt) = Len(rounds) - 1
    /\ limit = Len(Visible(State))
    /\ \A i \in 1..Len(prompt) : prompt[i].limit = Len(rounds[i].clusters)
    /\ prompt # <<>> =>
          \A s1 \in {run_Exit(State)} :
              /\ Shown(s1) = Last(prompt)
              /\ s1.prompt = Front(prompt)
              /\ s1.rounds = Front(rounds)
    /\ \A c \in AllFilterCommands : \A s1 \in {run_Filter(State, c[1], c[2], c[3])} :
          IF Len(s1.rounds) > Len(rounds)
          THEN /\ s1.prompt = Append(prompt, Shown(State))
               /\ Front(s1.rounds) = rounds
               /\ \A s2 \in {s1, run_Go(s1, "GoNext"), run_Jump(s1, <<"2">>),
                             run_SetQualifier(s1, TRUE, STR_mixed)} :
                     Shown(run_Exit(s2)) = Shown(State)
          ELSE s1.prompt = prompt /\ s1.rounds = rounds
    /\ \A s1 \in {run_ClusterID(State, s) : s \in ClusterIdLiterals \cup {<<"x">>}}
                   \cup UNION {run_Event(State, c[1], c[2]) : c \in AllEventCommands}
                   \cup {run_Go(State, cmd) : cmd \in {"GoNext", "GoPrev"}}
                   \cup {run_Jump(State, s) : s \in AllJumpLiterals}
                   \cup {run_SetReverse(State, x) : x \in BOOLEAN}
                   \cup SetQualifierSuccessors :
          s1.prompt = prompt /\ s1.rounds = rounds

\* A round was pushed while the cursor stood on the second of several
\* clusters; in the pushed round the cursor stands elsewhere and fewer
\* clusters are shown.
C32_Witness ==
    /\ Len(rounds) = 2
    /\ Len(prompt) = 1
    /\ Last(prompt).ticks = Some(1)
    /\ ticks = Some(0)
    /\ Last(prompt).limit > limit
    /\ Last(prompt).title # title

(***************************************************************************)
(* C33: in every state of the command loop the count (limit) is >= 1 and   *)
(* the cursor is either unset or strictly less than limit, so the clamp    *)
(* 'limit - 1' never underflows and print_cluster, set_qualifier and       *)
(* filter_event are never called with an index outside the current round.  *)
(***************************************************************************)
\* The states after one command whose iteration runs to the clamp and to
\* print_cluster.
PrintingCommandSuccessors ==
    {run_ClusterID(State, s) : s \in ClusterIdLiterals \cup {<<"x">>}}
    \cup UNION {run_Event(State, c[1], c[2]) : c \in AllEventCommands}
    \cup {run_Go(State, cmd) : cmd \in {"GoNext", "GoPrev"}}
    \cup {run_Jump(State, s) : s \in AllJumpLiterals}
    \cup SetQualifierSuccessors

\* The states after one command whose iteration ends with `continue`.
ContinuingCommandSuccessors ==
    {run_Exit(State)}
    \cup {run_Filter(State, c[1], c[2], c[3]) : c \in AllFilterCommands}
    \cup {run_SetReverse(State, x) : x \in BOOLEAN}

C33_CursorInsideRound ==
    /\ limit >= 1
    /\ limit = Len(Visible(State))
    /\ IsSome(ticks) => ticks.val < limit
    /\ \A c \in AllEventCommands :
          \A out \in filter_event(rounds, clusters_map, events, c[1], c[2], ticks) :
              out.ret.tag = "Ok"
    /\ IsSome(ticks) =>
          \A q \in {n \in AllQualifierNames : IsSome(Qualifier_from_str(n))} :
              IsSome(set_qualifier(rounds, clusters_map, ticks.val, q, FALSE).ret)
    /\ \A s1 \in PrintingCommandSuccessors :
          /\ IsSome(s1.ticks)
          /\ s1.ticks.val >= 0
          /\ s1.ticks.val < Len(Visible(s1))
          /\ s1.limit = limit
    /\ \A s1 \in ContinuingCommandSuccessors :
          /\ s1.limit >= 1
          /\ s1.limit = Len(Visible(s1))
          /\ IsSome(s1.ticks) => s1.ticks.val < s1.limit

\* A round of one cluster was pushed while the cursor stood on the second
\* cluster of the round beneath, and a jump past the end is clamped to the
\* only index of the pushed round.
C33_Witness ==
    /\ Len(rounds) = 2
    /\ limit = 1
    /\ Last(prompt).ticks = Some(1)
    /\ ticks = Some(0)
    /\ run_Jump(State, <<"9">>).ticks = Some(0)

(***************************************************************************)
(* C34: every round on the stack is non-empty, and the id list of every    *)
(* round above the base is a subset of the id list of the round directly   *)
(* beneath it: each filter narrows, and no filter introduces an id absent  *)
(* from the current round.                                                 *)
(***************************************************************************)
\* Every round of the stack rs is non-empty and within the round beneath it.
RoundsNarrow(rs) ==
    /\ \A i \in 1..Len(rs) : rs[i].clusters # <<>>
    /\ \A i \in 2..Len(rs) :
          /\ Range(rs[i].clusters) \subseteq Range(rs[i - 1].clusters)
          /\ Len(rs[i].clusters) <= Len(rs[i - 1].clusters)

C34_RoundsNonEmptyAndNested ==
    /\ rounds # <<>>
    /\ rounds[1].clusters = clusters
    /\ RoundsNarrow(rounds)
    /\ \A c \in AllFilterCommands : \A s1 \in {run_Filter(State, c[1], c[2], c[3])} :
          /\ RoundsNarrow(s1.rounds)
          /\ Len(s1.rounds) > Len(rounds) =>
                /\ Front(s1.rounds) = rounds
                /\ Range(Visible(s1)) \subseteq Range(Visible(State))
    /\ RoundsNarrow(run_Exit(State).rounds)

\* A Label filter has pushed a round that leaves out a cluster of the round
\* beneath, and a cluster outside the round beneath carries a label too.
C34_Witness ==
    /\ Len(rounds) = 2
    /\ Last(rounds).filtertype = "Label"
    /\ Range(rounds[2].clusters) # Range(rounds[1].clusters)
    /\ \E x \in AllLabelIds :
          LET id == parse_pattern_id(x)
          IN ~(Range(find_clusters(labels, id[1], id[2])) \subseteq Range(rounds[1].clusters))

(***************************************************************************)
(* C35: rounds are snapshots: set_qualifier, event regex filtering and     *)
(* clear_filter never change the id list of any round on the stack, so     *)
(* after set_qualifier(all, Q) in a round produced by a qualifier filter   *)
(* for Q' # Q the round still lists the same clusters although none of     *)
(* them satisfies its predicate any more.                                  *)
(***************************************************************************)
\* The clusters of the top round that satisfy the round's own Qualifier
\* predicate in the cluster map cm.
StillSatisfying(cm) ==
    filter_clusters(cm, Visible(State), "Qualifier", Last(rounds).op, Last(rounds).pattern)

C35_RoundsAreSnapshots ==
    /\ \A s1 \in SetQualifierSuccessors : s1.rounds = rounds
    /\ \A c \in AllEventCommands : \A s1 \in run_Event(State, c[1], c[2]) : s1.rounds = rounds
    /\ (Last(rounds).filtertype = "Qualifier" /\ IsSome(ticks)) =>
          \A q \in AllQualifierNames :
              (/\ IsSome(Qualifier_from_str(q))
               /\ Qualifier_from_str(q) # Qualifier_from_str(Last(rounds).pattern)) =>
                  \A s1 \in {run_SetQualifier(State, TRUE, q)} :
                      /\ s1.rounds = rounds
                      /\ Visible(s1) = Visible(State)
                      /\ s1.limit = limit
                      /\ StillSatisfying(s1.clusters_map) = <<>>

\* The top round was made by a Qualifier filter, and every cluster it
\* lists has since been assigned another qualifier.
C35_Witness ==
    /\ Len(rounds) = 2
    /\ Last(rounds).filtertype = "Qualifier"
    /\ StillSatisfying(clusters_map) = <<>>
    /\ \A c \in Range(Visible(State)) :
          clusters_map[c].new_qualifier # Qualifier_from_str(Last(rounds).pattern).val

(***************************************************************************)
(* C36: exit pops only the navigation round: qualifier edits made while    *)
(* the popped round was visible and every cluster's event-filter stack     *)
(* remain exactly as they were after the exit.                             *)
(***************************************************************************)
\* The stores of a state: everything but the round stack and the prompt.
Stores(st) ==
    [clusters |-> st.clusters, clusters_map |-> st.clusters_map, events |-> st.events,
     labels |-> st.labels, reverse |-> st.reverse]

C36_ExitPopsOnlyTheRound ==
    /\ \A s1 \in {run_Exit(State)} :
          /\ Stores(s1) = Stores(State)
          /\ Len(s1.rounds) = IF prompt # <<>> THEN Len(rounds) - 1 ELSE Len(rounds)
    /\ Len(rounds) > 1 =>
          \A q \in AllQualifierNames : \A all \in BOOLEAN :
              \A s1 \in {run_SetQualifier(State, all, q)} :
                  \A c \in AllEventCommands : \A s2 \in run_Event(s1, c[1], c[2]) :
                      \A s3 \in {run_Exit(s2)} :
                          /\ s3.rounds = Front(rounds)
                          /\ s3.clusters_map = s2.clusters_map
                          /\ \A d \in SetQualifierTargets(all, q) :
                                s3.clusters_map[d].new_qualifier = Qualifier_from_str(q).val

\* In a pushed round the cluster under the cursor has an edited qualifier
\* and a recorded event filter.
C36_Witness ==
    /\ Len(rounds) = 2
    /\ IsSome(ticks)
    /\ clusters_map[Visible(State)[ticks.val + 1]].new_qualifier
          # clusters_map[Visible(State)[ticks.val + 1]].qualifier
    /\ clusters_map[Visible(State)[ticks.val + 1]].filter # <<>>
    /\ clusters_map[Visible(State)[ticks.val + 1]].filtered_events # <<>>

(***************************************************************************)
(* C37: for every cluster and after any sequence of event-filter and clear *)
(* commands, the pattern stack and the filtered-subset stack have the same *)
(* depth, and the i-th pattern is the pattern text (including any '!'      *)
(* prefix) that produced the i-th subset.                                  *)
(***************************************************************************)
\* The event ids the i-th event filter of cluster record c worked on.
SubsetBeneath(c, i) == IF i = 1 THEN c.event_ids ELSE c.filtered_events[i - 1]

\* The list sub is what the pattern text p selects from the list prev.
ProducedBy(p, prev, sub) ==
    /\ p # <<>> /\ p # <<"!">>
    /\ LET negate == p[1] = "!"
           inner == IF negate THEN Tail(p) ELSE p
       IN /\ Regex_new(inner).tag = "Ok"
          /\ IF negate
             THEN /\ Range(sub) = {e \in Range(prev) : ~ContentMatches(e, inner)}
                  /\ Len(sub) = Cardinality(Range(sub))
             ELSE sub = SelectSeq(prev, LAMBDA e : ContentMatches(e, inner))

C37_PatternStackParallelsSubsets ==
    /\ \A c \in DOMAIN clusters_map :
          /\ Len(clusters_map[c].filter) = Len(clusters_map[c].filtered_events)
          /\ \A i \in 1..Len(clusters_map[c].filter) :
                ProducedBy(clusters_map[c].filter[i], SubsetBeneath(clusters_map[c], i),
                           clusters_map[c].filtered_events[i])
    /\ \A p \in AllRegexPatterns :
          \A s1 \in run_Event(State, "Regex", Some(p)) : \A c \in DOMAIN clusters_map :
              \/ s1.clusters_map[c] = clusters_map[c]
              \/ /\ s1.clusters_map[c].filter = Append(clusters_map[c].filter, p)
                 /\ Front(s1.clusters_map[c].filtered_events) = clusters_map[c].filtered_events
                 /\ ProducedBy(p, CurrentEventIds(clusters_map[c]),
                               Last(s1.clusters_map[c].filtered_events))
    /\ \A s1 \in run_Event(State, "NoFilter", None) : \A c \in DOMAIN clusters_map :
          \/ s1.clusters_map[c] = clusters_map[c]
          \/ s1.clusters_map[c].filter = <<>> /\ s1.clusters_map[c].filtered_events = <<>>

\* A cluster carries a negated and a plain event filter, the second
\* narrowing the first.
C37_Witness ==
    \E c \in DOMAIN clusters_map :
        /\ Len(clusters_map[c].filter) >= 2
        /\ clusters_map[c].filter[1][1] = "!"
        /\ clusters_map[c].filter[2][1] # "!"
        /\ Len(clusters_map[c].filtered_events[2]) < Len(clusters_map[c].filtered_events[1])
        /\ clusters_map[c].filtered_events[2] # <<>>

(***************************************************************************)
(* C38: for every cluster, the filtered-subset stack is a nested chain:    *)
(* each entry is a subset of the entry beneath it, and the bottom entry is *)
(* a subset of the cluster's full event-id list, after any sequence of     *)
(* event-filter commands.                                                  *)
(***************************************************************************)
\* The subset stack of cluster record c is a chain that starts inside the
\* member list.
NestedChain(c) ==
    \A i \in 1..Len(c.filtered_events) :
        /\ Range(c.filtered_events[i]) \subseteq Range(SubsetBeneath(c, i))
        /\ Len(c.filtered_events[i]) <= Len(SubsetBeneath(c, i))

C38_SubsetStackIsNestedChain ==
    /\ \A c \in DOMAIN clusters_map : NestedChain(clusters_map[c])
    /\ \A e \in AllEventCommands : \A s1 \in run_Event(State, e[1], e[2]) :
          \A c \in DOMAIN s1.clusters_map :
              /\ NestedChain(s1.clusters_map[c])
              /\ s1.clusters_map[c].event_ids = clusters_map[c].event_ids

\* A cluster carries three event filters, each dropping an event the one
\* beneath it kept, the first dropping a member.
C38_Witness ==
    \E c \in DOMAIN clusters_map :
        /\ Len(clusters_map[c].filtered_events) = 3
        /\ \A i \in 1..3 :
              Range(clusters_map[c].filtered_events[i])
                 # Range(SubsetBeneath(clusters_map[c], i))

(***************************************************************************)
(* C39: unlike a cluster-level filter, a valid event regex filter that     *)
(* matches no event is still recorded: it pushes an empty subset onto the  *)
(* cluster's filter stack, after which every further event filter on that  *)
(* cluster, negated or not, yields the empty set until clear_filter is     *)
(* issued.                                                                 *)
(***************************************************************************)
\* The cluster under the cursor; used where the cursor is set.
UnderCursor == Visible(State)[ticks.val + 1]

\* The events of the list ids that the pattern text p selects, as a set.
SelectedBy(p, ids) ==
    IF p[1] = "!" THEN {e \in Range(ids) : ~ContentMatches(e, Tail(p))}
    ELSE {e \in Range(ids) : ContentMatches(e, p)}

C39_EmptyEventMatchIsRecorded ==
    IsSome(ticks) =>
        \A p \in {x \in AllRegexPatterns : ~RejectedEventPattern(x)} :
            /\ SelectedBy(p, CurrentEventIds(clusters_map[UnderCursor])) = {} =>
                  \A s1 \in run_Event(State, "Regex", Some(p)) :
                      /\ s1.clusters_map[UnderCursor].filtered_events
                           = Append(clusters_map[UnderCursor].filtered_events, <<>>)
                      /\ s1.clusters_map[UnderCursor].filter
                           = Append(clusters_map[UnderCursor].filter, p)
                      /\ \A q \in {x \in AllRegexPatterns : ~RejectedEventPattern(x)} :
                            /\ \A s2 \in run_Event(s1, "Regex", Some(q)) :
                                  /\ Len(s2.clusters_map[UnderCursor].filtered_events)
                                       = Len(clusters_map[UnderCursor].filtered_events) + 2
                                  /\ Last(s2.clusters_map[UnderCursor].filtered_events) = <<>>
                            /\ \A s2 \in run_Event(s1, "NoFilter", None) :
                                  \A s3 \in run_Event(s2, "Regex", Some(q)) :
                                      s3.clusters_map[UnderCursor].filtered_events
                                        \in {<<r>> : r \in Perms(SelectedBy(q,
                                                 clusters_map[UnderCursor].event_ids))}
            /\ (/\ clusters_map[UnderCursor].filtered_events # <<>>
                /\ Last(clusters_map[UnderCursor].filtered_events) = <<>>) =>
                  regex_match_in_this_cluster(clusters_map, UnderCursor, p, events)
                    = {[tag |-> "Some", val |-> <<>>]}
            /\ (p[1] # "!" /\ \A c \in Range(Visible(State)) :
                                   SelectedBy(p, clusters_map[c].event_ids) = {}) =>
                  run_Filter(State, "Regex", "EQ", Some(p)).rounds = rounds

\* The cursor is on a cluster with three event filters recorded: the first
\* kept events, the second matched none of them, and the third, which the
\* member list has matches for, is recorded with the empty set too.
C39_Witness ==
    /\ IsSome(ticks)
    /\ Len(clusters_map[UnderCursor].filtered_events) = 3
    /\ clusters_map[UnderCursor].filtered_events[1] # <<>>
    /\ clusters_map[UnderCursor].filtered_events[2] = <<>>
    /\ clusters_map[UnderCursor].filtered_events[3] = <<>>
    /\ SelectedBy(clusters_map[UnderCursor].filter[3], clusters_map[UnderCursor].event_ids) # {}

(***************************************************************************)
(* C40: for any valid pattern p and any current round R, the cluster-level *)
(* regex filter with p and the one with '!p' select disjoint sub-lists of  *)
(* R whose union is R (each in R's order): '!p' keeps exactly the clusters *)
(* of R none of whose member events matches p; a lone '!' is rejected as   *)
(* no match without touching the stack.                                    *)
(***************************************************************************)
\* The list the cluster-level Regex filter with the text p selects from the
\* visible round: the round it pushes, or the empty list when it pushes none.
SelectedByRegexFilter(p) ==
    LET r == filter_by_regex(rounds, clusters_map, events, p)
    IN IF IsSome(r.ret) THEN Last(r.rounds).clusters ELSE <<>>

\* The filters with p and with '!p' split the visible round.
SplitsRound(p) ==
    LET with == SelectedByRegexFilter(p)
        without == SelectedByRegexFilter(<<"!">> \o p)
    IN /\ Range(with) \cap Range(without) = {}
       /\ Range(with) \cup Range(without) = Range(Visible(State))
       /\ IsSubsequence(with, Visible(State))
       /\ IsSubsequence(without, Visible(State))
       /\ without = SelectSeq(Visible(State), LAMBDA c :
                        \A i \in 1..Len(clusters_map[c].event_ids) :
                            ~ContentMatches(clusters_map[c].event_ids[i], p))

\* A lone '!' pushes nothing and reports no match.
LoneBangRejected ==
    /\ filter_by_regex(rounds, clusters_map, events, <<"!">>)
         = [rounds |-> rounds, ret |-> None, err |-> FALSE]
    /\ run_Filter(State, "Regex", "EQ", Some(<<"!">>)) = State

\* The statement for every valid pattern.
C40_RegexAndNegationSplitRound ==
    /\ \A p \in {x \in AllRegexPatterns : Regex_new(x).tag = "Ok"} : SplitsRound(p)
    /\ LoneBangRejected

\* The statement for the valid patterns that do not begin with '!'; a text
\* that begins with '!' is always read as the negation of the rest.
C40_PlainRegexAndNegationSplitRound ==
    /\ \A p \in {x \in AllRegexPatterns : Regex_new(x).tag = "Ok" /\ x[1] # "!"} :
          SplitsRound(p)
    /\ \A x \in {y \in AllRegexPatterns :
                    y[1] = "!" /\ Len(y) > 1 /\ Regex_new(Tail(y)).tag = "Ok"} :
          SelectedByRegexFilter(x)
            = SelectSeq(Visible(State), LAMBDA c :
                  \A i \in 1..Len(clusters_map[c].event_ids) :
                      ~ContentMatches(clusters_map[c].event_ids[i], Tail(x)))
    /\ LoneBangRejected

\* A pushed round of two or more clusters, narrower than the base, that a
\* plain pattern and its negation split into two non-empty lists.
C40_Witness ==
    /\ Len(rounds) = 2
    /\ Len(Visible(State)) >= 2
    /\ Len(Visible(State)) < Len(rounds[1].clusters)
    /\ \E p \in {x \in AllRegexPatterns : Regex_new(x).tag = "Ok" /\ x[1] # "!"} :
          /\ SelectedByRegexFilter(p) # <<>>
          /\ SelectedByRegexFilter(<<"!">> \o p) # <<>>

=============================================================================
